---- MODULE Spec2Model ----
(***************************************************************************)
(* Olakai SDK: the call-interception pipeline.                             *)
(*                                                                         *)
(*   - monitor()            src/unnamed/part_002 (monitor.ts + types.ts)   *)
(*   - streaming wrappers   src/src/providers/anthropic.ts, google.ts      *)
(*   - OlakaiSDK.wrap       src/unnamed/part_004 (sdk.ts + openai.ts)      *)
(*                                                                         *)
(* One asynchronous function is a chain of steps separated by its awaits;  *)
(* an action is the code that runs synchronously between two awaits.       *)
(* sendToAPI (src/client.ts) is not among the sources: a call to it yields *)
(* a promise that the environment later resolves, or rejects, or leaves    *)
(* pending.                                                                *)
(*                                                                         *)
(* Arguments of the wrapped callables are JSON values, which               *)
(* JSON.stringify and toJsonValue accept.                                  *)
(***************************************************************************)
EXTENDS Integers, Sequences, FiniteSets, TLC

(***************************************************************************)
(* Bounds and value domains                                                *)
(***************************************************************************)

\* Values a callable may return.
Results == {"r1", "r2"}

\* Values a callable may throw or reject with: an Error, and non-Error values.
\* "symbol" stands for Symbol(), "nullProto" for Object.create(null).
ThrownValues == {"Error", "string", "undefined", "symbol", "nullProto"}

\* How the wrapped callable behaves (part_002:112: TResult | Promise<TResult>).
FnKinds == {"syncReturn", "syncThrow", "asyncResolve", "asyncReject"}

\* options.chatId / options.email (part_002:430-431): absent, a string, a
\* resolver function, a resolver function that throws an Error, or one that
\* throws a value no template literal can print (a Symbol).
IdOptions == {"undefined", "static", "function", "throws", "throwsUnprintable"}

\* options.onMonitoredFunctionError (part_002:428).
FlagOptions == {"undefined", "true", "false"}

Pending == [kind |-> "pending", value |-> "none"]
Resolved(v) == [kind |-> "resolved", value |-> v]
Rejected(e) == [kind |-> "rejected", value |-> e]

VARIABLES
  \* ---- inputs of one monitor() invocation
  configOk,        \* getConfig() returns (TRUE) or throws (FALSE)
  options,         \* MonitorOptions: [chatId, email, onMonitoredFunctionError]
  fnKind,          \* behaviour of the wrapped callable
  fnResult,        \* the value it returns / resolves with
  fnError,         \* the value it throws / rejects with
  clientFails,     \* TRUE: the delivery client is forced to always fail
  globalEnableControl, \* the application's control switch (EnhancedSDKConfig.enableControl,
                   \* part_002:525); monitor() never reads it
  \* ---- state of the invocation
  mpc,             \* position of the async wrapper
  shouldAllow,     \* result of shouldAllowCall: "none" | "allowed" | "denied"
  controlResp,     \* what the control endpoint answered: "none" | "allow" | "deny" | "error"
  fnCalls,         \* number of times the callable was invoked
  fnCallLog,       \* per invocation of the callable: the verdict held at that moment
  sent,            \* sequence of payloads handed to sendToAPI, in call order
  flight,          \* per entry of sent: "pending" | "resolved" | "rejected"
  unhandled,       \* number of rejections nobody handles
  logged,          \* number of failures caught and logged
  outcome          \* what the caller's promise settles with

VARIABLES
  \* ---- one streaming handle (anthropic.ts wrapStream, google.ts wrapStreamResponse)
  provider,        \* "anthropic" | "google" | "none"
  chunks,          \* what the provider's stream produces, in order
  streamError,     \* TRUE: the stream ends with an error instead of done
  broadcast,       \* TRUE: every iterator of the handle sees every chunk produced
                   \* after its creation; FALSE: the iterators pull from one source
  origHasReturn,   \* the original iterator has a return method
  origHasThrow,    \* the original iterator has a throw method
  produced,        \* number of chunks the provider's stream has produced
  its,             \* the original iterators: [pos, closed] each
  iters,           \* number of wrapped iterators created
  accumulatedText, \* wrapStream: let accumulatedText
  callbackFired,   \* wrapStream: let callbackFired
  finalMessage,    \* wrapStream: let finalMessage ("null" or "message")
  onLLMCall,       \* the calls of onLLMCall: [text, final] each
  pendingAcc,      \* per final-result accessor: continuations registered, not yet run
  accReads,        \* number of reads of final-result accessors so far
  handlers,        \* per event name: wrapped handlers registered through on()
  endEmitted,      \* the end-of-stream events already emitted
  \* ---- what the consumer has seen and done (history)
  lastOp,          \* the latest settled operation or emitted end event:
                   \* "none" | "done" | "rejected" | "return" | "throw"
                   \* | "resolved" | "failed" | "event"
  deliveredText,   \* concatenation of the text deltas delivered by next(), while
                   \* one iterator is the only thing the consumer uses
  textAtFire,      \* deliveredText when the completion callback first fired
  lastCall,        \* the last call of next / return / throw on a wrapped iterator:
                   \* what the original iterator answered, what the wrapper
                   \* answered, and the accumulated text before the call
  streamCalls,     \* two streaming calls through one wrapped client, per call:
                   \* its chunks, how far it was consumed, whether its
                   \* consumption ended, the reports made for its request
  cells            \* the closure variables of the wrapStream invocations, per
                   \* cell: accumulatedText and callbackFired

VARIABLES
  \* ---- one call through a client wrapped by OlakaiSDK.wrap (sdk.ts)
  initialized,          \* OlakaiSDK.initialized when wrap() is called
  llmProvider,            \* config.provider: "openai" | "anthropic" | "google"
  configEnableControl,  \* enableControl given to the OlakaiSDK constructor
  wrapperEnableControl, \* enableControl given to wrap()
  suppliedChatId,       \* the chatId the caller supplied: defaultContext.chatId,
                        \* OlakaiEventParams.chatId or context.chatId
  providerFails,        \* TRUE: the provider's original method rejects
  cpc,                  \* position of the wrapped provider method
  hpc,                  \* position of handleLLMCall / handleLLMError
  providerCalls,        \* number of invocations of the provider's original method
  control,              \* the control check: "none" | "pending" | "allow"
                        \* | "deny" | "denyNoDetails" | "error"
  csent,                \* payloads handed to sendToAPI, in call order
  callerOutcome,        \* what the caller of the wrapped method receives
  callbackOutcome,      \* the promise of onLLMCall / onLLMError, which the
                        \* provider wrapper does not await
  cunhandled,           \* rejections nobody handles
  clogged,              \* failures caught and logged
  blockedDetails        \* details.detectedSensitivity of the
                        \* OlakaiBlockedError that was raised

mvars == <<configOk, options, fnKind, fnResult, fnError, clientFails,
           globalEnableControl, mpc,
           shouldAllow, controlResp, fnCalls, fnCallLog, sent, flight,
           unhandled, logged, outcome>>

StreamInputs == <<provider, chunks, streamError, broadcast, origHasReturn, origHasThrow>>

StreamHistory == <<lastOp, deliveredText, textAtFire>>

svars == <<StreamInputs, produced, its, iters, accumulatedText, callbackFired,
           finalMessage, onLLMCall, pendingAcc, accReads, handlers, endEmitted,
           StreamHistory, lastCall, streamCalls, cells>>

VARIABLES
  \* ---- what the provider's function does, for wrapped clients and for
  \* generateText / streamText alike
  providerError,        \* the value the provider's function rejects with
  responseShape,        \* what it resolves with: "ok" | "null"
  \* ---- one call of OlakaiSDK.generateText / streamText / event
  sdkOp,                \* "none" | "generateText" | "streamText" | "event"
  aiInstalled,          \* import("ai") succeeds
  contextEnableControl, \* context.enableControl
  hasFinishPromise,     \* the streamText result has a finishPromise
  vpc,                  \* position of generateText / streamText / event
  tpc,                  \* position of the work left behind un-awaited:
                        \* trackStreamCompletion's continuation, report()
  usage,                \* usage object of a provider response
  normalizer,           \* the normalizer applied to it
  tokens                \* metadata.tokens it produced

cvars == <<initialized, llmProvider, configEnableControl, wrapperEnableControl,
           suppliedChatId,
           providerFails, cpc, hpc, providerCalls, control, csent,
           callerOutcome, callbackOutcome, cunhandled, clogged, blockedDetails>>

ProviderOutcome == <<providerError, responseShape>>

VARIABLES
  \* ---- the delivery client (client.ts): one sendToAPI call with its retries
  retries,              \* config.retries
  endpoint,             \* "monitoring" | "control"
  alwaysFails,          \* the endpoint answers every attempt with a transient failure
  attempts,             \* attempts made so far
  delays,               \* the delays waited between attempts, in ms, in order
  dpc,                  \* "off" | "idle" | "attempting" | "backoff" | "done"
  deliveryResult,       \* "none" | "delivered" | "HTTPError" | "DeliveryError"
  \* ---- the circuit breaker of one endpoint and the calls that share it
  failureThreshold,     \* the configured run of consecutive failures
  breakerState,         \* "off" | "closed" | "open" | "halfOpen"
  consecutiveFailures,  \* failures since the last success
  probeClaimed,         \* the half-open trial call has been claimed
  callPc,               \* per call: "idle" | "inFlight" | "probing" | "done"
  callStartedIn,        \* per call: the breaker state it found when it started
  callResult,           \* per call: "none" | "ok" | "failed" | "CircuitOpenError"
  breakerLast           \* the last breaker event

dvars == <<retries, endpoint, alwaysFails, attempts, delays, dpc, deliveryResult>>

bvars == <<failureThreshold, breakerState, consecutiveFailures, probeClaimed,
           callPc, callStartedIn, callResult, breakerLast>>

vvars == <<sdkOp, aiInstalled, contextEnableControl, hasFinishPromise, vpc, tpc>>

nvars == <<usage, normalizer, tokens>>

\* What the monitor and stream steps leave alone.
others == <<ProviderOutcome, vvars, nvars, dvars, bvars>>

vars == <<mvars, svars, cvars, ProviderOutcome, vvars, nvars, dvars, bvars>>

(***************************************************************************)
(* monitor.ts                                                              *)
(***************************************************************************)

\* `${error}` in a template literal applies ToString to the value, which
\* throws a TypeError for a Symbol and for an object without a prototype.
TemplateThrows(e) == e \in {"symbol", "nullProto"}

\* resolveIdentifiers, one identifier: a resolver that throws is caught and
\* the default stays; an absent option gives the default.
ResolveId(opt, default) ==
  CASE opt = "undefined" -> default
    [] opt = "static"    -> "static-id"
    [] opt = "function"  -> "resolved-id"
    [] opt = "throws"    -> default
    [] opt = "throwsUnprintable" -> default

\* typeof options.chatId === "function" and the call throws
ResolverThrows(opt) == opt \in {"throws", "throwsUnprintable"}

\* The catch of a throwing resolver logs `Error during chatId resolution:
\* ${error}...`: with a value that cannot be printed the log line itself
\* throws a TypeError and resolveIdentifiers is left by that exception.
ResolverAborts(o) ==
  \/ o.chatId = "throwsUnprintable"
  \/ o.email = "throwsUnprintable"

resolveIdentifiers(o) ==
  [chatId |-> ResolveId(o.chatId, "123"),
   email  |-> ResolveId(o.email, "anonymous@olakai.ai")]

ShouldAllowFailOpen(ok) == "allowed"

\* shouldAllowCall: allowed when the control send resolved (whatever the
\* response says), denied when anything in the try block threw.
shouldAllowCall(ok) == IF ok THEN "allowed" ELSE "denied"

IsBlockedNever(v) == FALSE

\* if (!shouldAllow.allowed)
IsBlocked(v) == v # "allowed"

ControlPayload(o) ==
  [endpoint |-> "control", handled |-> TRUE, blocked |-> "undefined",
   errorMessage |-> "undefined", response |-> "none",
   chatId |-> resolveIdentifiers(o).chatId, email |-> resolveIdentifiers(o).email]

BlockedPayload(o) ==
  [endpoint |-> "monitoring", handled |-> FALSE, blocked |-> "true",
   errorMessage |-> "undefined", response |-> "none",
   chatId |-> resolveIdentifiers(o).chatId, email |-> resolveIdentifiers(o).email]

SuccessPayload(o, r) ==
  [endpoint |-> "monitoring", handled |-> TRUE, blocked |-> "false",
   errorMessage |-> "undefined", response |-> r,
   chatId |-> resolveIdentifiers(o).chatId, email |-> resolveIdentifiers(o).email]

ErrorPayload(o, e) ==
  [endpoint |-> "monitoring", handled |-> TRUE, blocked |-> "undefined",
   errorMessage |-> e, response |-> "none",
   chatId |-> resolveIdentifiers(o).chatId, email |-> resolveIdentifiers(o).email]

\* options.onMonitoredFunctionError ?? true
ReportsErrors(o) == o.onMonitoredFunctionError # "false"

\* reportError: the payloads it hands to sendToAPI.
reportError(o, e) == IF ReportsErrors(o) THEN <<ErrorPayload(o, e)>> ELSE <<>>

\* throw error (part_002:215)
Rethrow(e) == Rejected(e)

\* sendToAPI(payload, kind) is called with each payload of ps: the promises
\* are in flight.
Send(ps) ==
  /\ sent' = sent \o ps
  /\ flight' = flight \o [i \in 1..Len(ps) |-> "pending"]

MonitorInputs == <<configOk, options, fnKind, fnResult, fnError, clientFails,
                   globalEnableControl>>

\* The catch block of monitor (part_002:201-216) for a callable that raised e:
\* the log line interpolates e, reportError is started, e is thrown again.
CatchPath(e) ==
  IF TemplateThrows(e)
  THEN /\ outcome' = Rejected("TypeError")
       /\ UNCHANGED <<sent, flight>>
  ELSE /\ Send(reportError(options, e))
       /\ outcome' = Rethrow(e)

InvokeUninitializedWithControl ==
  /\ UNCHANGED <<svars, cvars, others>>
  /\ mpc = "idle"
  /\ ~configOk
  /\ Send(<<ControlPayload(options)>>)
  /\ mpc' = "awaitControl"
  /\ UNCHANGED <<MonitorInputs, shouldAllow, controlResp, fnCalls, fnCallLog,
                 unhandled, logged, outcome>>

\* The wrapper is called and getConfig() throws: the callable runs unmonitored.
InvokeUninitialized ==
  /\ UNCHANGED <<svars, cvars, others>>
  /\ mpc = "idle"
  /\ ~configOk
  /\ fnCalls' = fnCalls + 1
  /\ fnCallLog' = Append(fnCallLog, shouldAllow)
  /\ IF fnKind = "syncThrow"
     THEN mpc' = "done" /\ outcome' = Rejected(fnError)
     ELSE mpc' = "awaitFnUninit" /\ UNCHANGED outcome
  /\ UNCHANGED <<MonitorInputs, shouldAllow, controlResp, sent, flight, unhandled, logged>>

\* await Promise.resolve(fn(...args)) settles on the unmonitored path.
FnSettlesUninitialized ==
  /\ UNCHANGED <<svars, cvars, others>>
  /\ mpc = "awaitFnUninit"
  /\ outcome' = IF fnKind = "asyncReject" THEN Rejected(fnError) ELSE Resolved(fnResult)
  /\ mpc' = "done"
  /\ UNCHANGED <<MonitorInputs, shouldAllow, controlResp, fnCalls, fnCallLog, sent,
                 flight, unhandled, logged>>

\* The wrapper is called with configuration available: shouldAllowCall sends
\* the control payload and awaits it.
InvokeMonitored ==
  /\ UNCHANGED <<svars, cvars, others>>
  /\ mpc = "idle"
  /\ configOk
  /\ ~ResolverAborts(options)
  /\ Send(<<ControlPayload(options)>>)
  /\ mpc' = "awaitControl"
  /\ UNCHANGED <<MonitorInputs, shouldAllow, controlResp, fnCalls, fnCallLog,
                 unhandled, logged, outcome>>

\* The wrapper is called with configuration available and resolveIdentifiers
\* is left by an exception: it runs inside the try block of shouldAllowCall,
\* whose catch logs and denies before any control payload is built.
InvokeMonitoredResolverAborts ==
  /\ UNCHANGED <<svars, cvars, others>>
  /\ mpc = "idle"
  /\ configOk
  /\ ResolverAborts(options)
  /\ logged' = logged + 1
  /\ shouldAllow' = shouldAllowCall(FALSE)
  /\ mpc' = "checked"
  /\ UNCHANGED <<MonitorInputs, controlResp, fnCalls, fnCallLog, sent, flight,
                 unhandled, outcome>>

\* The control send resolves with a response saying allowed = a.
ControlResolves(a) ==
  /\ UNCHANGED <<svars, cvars, others>>
  /\ mpc = "awaitControl"
  /\ ~clientFails
  /\ controlResp' = IF a THEN "allow" ELSE "deny"
  /\ flight' = [flight EXCEPT ![1] = "resolved"]
  /\ shouldAllow' = shouldAllowCall(TRUE)
  /\ mpc' = "checked"
  /\ UNCHANGED <<MonitorInputs, fnCalls, fnCallLog, sent, unhandled, logged, outcome>>

\* The control send rejects: the catch of shouldAllowCall logs and denies.
ControlRejects ==
  /\ UNCHANGED <<svars, cvars, others>>
  /\ mpc = "awaitControl"
  /\ controlResp' = "error"
  /\ flight' = [flight EXCEPT ![1] = "rejected"]
  /\ logged' = logged + 1
  /\ shouldAllow' = shouldAllowCall(FALSE)
  /\ mpc' = "checked"
  /\ UNCHANGED <<MonitorInputs, fnCalls, fnCallLog, sent, unhandled, outcome>>

\* The blocked path (part_002:164-190): the blocked payload is sent without
\* await and without a rejection handler, then OlakaiBlockedError is thrown.
\* resolveIdentifiers is called first, outside any try block: its exception
\* leaves monitor() before the payload is built.
BlockCall ==
  /\ UNCHANGED <<svars, cvars, others>>
  /\ mpc = "checked"
  /\ IsBlocked(shouldAllow)
  /\ IF ResolverAborts(options)
     THEN /\ outcome' = Rejected("TypeError")
          /\ UNCHANGED <<sent, flight>>
     ELSE /\ Send(<<BlockedPayload(options)>>)
          /\ outcome' = Rejected("OlakaiBlockedError")
  /\ mpc' = "done"
  /\ UNCHANGED <<MonitorInputs, shouldAllow, controlResp, fnCalls, fnCallLog,
                 unhandled, logged>>

\* fn(...args) at part_002:197; a synchronous throw goes to the catch block.
ExecuteFn ==
  /\ UNCHANGED <<svars, cvars, others>>
  /\ mpc = "checked"
  /\ ~IsBlocked(shouldAllow)
  /\ fnCalls' = fnCalls + 1
  /\ fnCallLog' = Append(fnCallLog, shouldAllow)
  /\ IF fnKind = "syncThrow"
     THEN CatchPath(fnError) /\ mpc' = "done"
     ELSE mpc' = "awaitFn" /\ UNCHANGED <<sent, flight, outcome>>
  /\ UNCHANGED <<MonitorInputs, shouldAllow, controlResp, unhandled, logged>>

FnSettlesAwaitingDelivery ==
  /\ UNCHANGED <<svars, cvars, others>>
  /\ mpc = "awaitFn"
  /\ IF fnKind = "asyncReject"
     THEN CatchPath(fnError)
     ELSE /\ Send(<<SuccessPayload(options, fnResult)>>)
          /\ UNCHANGED outcome
  /\ mpc' = "done"
  /\ UNCHANGED <<MonitorInputs, shouldAllow, controlResp, fnCalls, fnCallLog,
                 unhandled, logged>>

\* await Promise.resolve(functionResult) settles: makeMonitoringCall is
\* started and the result returned, or the catch block runs.
FnSettles ==
  /\ UNCHANGED <<svars, cvars, others>>
  /\ mpc = "awaitFn"
  /\ IF fnKind = "asyncReject"
     THEN CatchPath(fnError)
     ELSE /\ Send(<<SuccessPayload(options, fnResult)>>)
          /\ outcome' = Resolved(fnResult)
  /\ mpc' = "done"
  /\ UNCHANGED <<MonitorInputs, shouldAllow, controlResp, fnCalls, fnCallLog,
                 unhandled, logged>>

MonitoringSettlesRerunsFn(i, ok) ==
  /\ UNCHANGED <<svars, cvars, others>>
  /\ i \in 1..Len(sent)
  /\ sent[i].endpoint = "monitoring"
  /\ flight[i] = "pending"
  /\ clientFails => ~ok
  /\ flight' = [flight EXCEPT ![i] = IF ok THEN "resolved" ELSE "rejected"]
  /\ logged' = IF ~ok /\ sent[i].handled THEN logged + 1 ELSE logged
  /\ unhandled' = IF ~ok /\ ~sent[i].handled THEN unhandled + 1 ELSE unhandled
  /\ fnCalls' = IF ok THEN fnCalls ELSE fnCalls + 1
  /\ UNCHANGED <<MonitorInputs, mpc, shouldAllow, controlResp, fnCallLog,
                 sent, outcome>>

\* A monitoring send settles. A rejection is caught and logged where the
\* send is awaited inside try/catch, and is unhandled otherwise.
MonitoringSettles(i, ok) ==
  /\ UNCHANGED <<svars, cvars, others>>
  /\ i \in 1..Len(sent)
  /\ sent[i].endpoint = "monitoring"
  /\ flight[i] = "pending"
  /\ clientFails => ~ok
  /\ flight' = [flight EXCEPT ![i] = IF ok THEN "resolved" ELSE "rejected"]
  /\ logged' = IF ~ok /\ sent[i].handled THEN logged + 1 ELSE logged
  /\ unhandled' = IF ~ok /\ ~sent[i].handled THEN unhandled + 1 ELSE unhandled
  /\ UNCHANGED <<MonitorInputs, mpc, shouldAllow, controlResp, fnCalls, fnCallLog,
                 sent, outcome>>

MonitorInit ==
  /\ configOk \in BOOLEAN
  /\ options \in [chatId : IdOptions, email : IdOptions,
                  onMonitoredFunctionError : FlagOptions]
  /\ fnKind \in FnKinds
  /\ fnResult \in Results
  /\ fnError \in ThrownValues
  /\ clientFails \in BOOLEAN
  /\ globalEnableControl \in BOOLEAN
  /\ mpc = "idle"
  /\ shouldAllow = "none"
  /\ controlResp = "none"
  /\ fnCalls = 0
  /\ fnCallLog = <<>>
  /\ sent = <<>>
  /\ flight = <<>>
  /\ unhandled = 0
  /\ logged = 0
  /\ outcome = Pending

MonitorNext ==
  \/ InvokeUninitialized
  \/ FnSettlesUninitialized
  \/ InvokeMonitored
  \/ InvokeMonitoredResolverAborts
  \/ \E a \in BOOLEAN : ControlResolves(a)
  \/ ControlRejects
  \/ BlockCall
  \/ ExecuteFn
  \/ FnSettles
  \/ \E i \in 1..2, ok \in BOOLEAN : MonitoringSettles(i, ok)

(***************************************************************************)
(* Streaming wrappers: AnthropicProvider.wrapStream and                    *)
(* GoogleProvider.wrapStreamResponse                                       *)
(***************************************************************************)

\* Longest stream, in chunks.
MaxChunks == 2
\* Uses of one handle by its consumer: iterators obtained, final-result
\* accessors read and handlers registered through on(), together.
MaxUses == 2

\* The k-th chunk of a stream: a text delta, whose text is the one character
\* k (so that every delta of a stream is recognisable in the reported text),
\* or an event without text.
ChunkAt(k, isDelta) ==
  IF isDelta THEN [type |-> "delta", text |-> <<k>>] ELSE [type |-> "other", text |-> <<>>]

Streams ==
  UNION {{[k \in 1..n |-> ChunkAt(k, d[k])] : d \in [1..n -> BOOLEAN]} : n \in 0..MaxChunks}

\* The final-result accessors the wrappers intercept.
Accessors(p) ==
  CASE p = "anthropic" -> {"finalMessage", "getFinalMessage", "text"}
    [] p = "google"    -> {"response"}
    [] OTHER           -> {}

AllAccessors == {"finalMessage", "getFinalMessage", "text", "response"}

\* on(): the event names whose handler fires the callback, and "text".
EndEvents == {"message", "end", "finalMessage"}
Events == {"text"} \cup EndEvents

\* The text delta a chunk of the provider carries.
DeltaOf(c) == IF c.type = "delta" THEN c.text ELSE <<>>

RECURSIVE SumOver(_, _)
SumOver(f, S) ==
  IF S = {} THEN 0 ELSE LET x == CHOOSE y \in S : TRUE IN f[x] + SumOver(f, S \ {x})

RECURSIVE FullText(_)
\* The text of the provider's final message: every delta, in order.
FullText(cs) == IF cs = <<>> THEN <<>> ELSE DeltaOf(Head(cs)) \o FullText(Tail(cs))

\* extractTextFromEvent (anthropic.ts) / extractTextFromChunk (google.ts):
\* the text of a delta, "" for anything else, and "" from the catch block
\* when reading the chunk throws.
extractText(c) ==
  CASE c.type = "failing" -> <<>>
    [] c.type = "delta"   -> c.text
    [] OTHER              -> <<>>

AccumulateLast(acc, t) == t

\* if (eventText) accumulatedText += eventText
Accumulate(acc, t) == IF t # <<>> THEN acc \o t ELSE acc

RECURSIVE AccumulateTimes(_, _, _)
AccumulateTimes(acc, t, n) ==
  IF n = 0 THEN acc ELSE AccumulateTimes(Accumulate(acc, t), t, n - 1)

\* The consumer uses more than one iterator of the handle, or an accessor,
\* or on().
MixedUse == iters > 1 \/ accReads > 0 \/ SumOver(handlers, Events) > 0

\* How many times the consumer has used the handle.
Uses == iters + accReads + SumOver(handlers, Events)

Report(acc, fm) == [text |-> acc, final |-> fm]

FireCallbackUnguarded(st, rep) ==
  [callbackFired |-> TRUE, onLLMCall |-> Append(st.onLLMCall, rep)]

\* fireCallback: if (callbackFired) return; callbackFired = true; ... onLLMCall(...)
fireCallback(st, rep) ==
  IF st.callbackFired
  THEN st
  ELSE [callbackFired |-> TRUE, onLLMCall |-> Append(st.onLLMCall, rep)]

RECURSIVE FireTimes(_, _, _)
FireTimes(n, st, rep) ==
  IF n = 0 THEN st ELSE FireTimes(n - 1, fireCallback(st, rep), rep)

\* n calls of fireCallback in one synchronous step, with the text and the
\* final message the closure holds at that moment.
Fire(n, acc, fm) ==
  LET st == FireTimes(n, [callbackFired |-> callbackFired, onLLMCall |-> onLLMCall],
                      Report(acc, fm))
  IN /\ callbackFired' = st.callbackFired
     /\ onLLMCall' = st.onLLMCall
     /\ textAtFire' = IF st.callbackFired /\ ~callbackFired /\ ~MixedUse
                      THEN deliveredText ELSE textAtFire

ReturnSilently(n) == 0

\* return(): fireCallback() is called before forwarding
ReturnFires(n) == n

\* The original iterator behind wrapped iterator i.
Under(i) == IF broadcast THEN i ELSE 1

\* The stream has produced everything the original iterator u can still read.
AtEnd(u) ==
  /\ its[u].pos = Len(chunks)
  /\ broadcast => produced = Len(chunks)

\* stream[Symbol.asyncIterator]() through the proxy: a wrapped iterator
\* around a new original iterator.
GetIterator ==
  /\ provider # "none"
  /\ Uses < MaxUses
  /\ iters' = iters + 1
  /\ its' = IF broadcast THEN Append(its, [pos |-> produced, closed |-> FALSE])
            ELSE IF iters = 0 THEN <<[pos |-> 0, closed |-> FALSE]>> ELSE its
  /\ UNCHANGED lastOp
  /\ deliveredText' = <<>>
  /\ textAtFire' = <<>>
  /\ UNCHANGED <<StreamInputs, produced, accumulatedText, callbackFired, finalMessage,
                 onLLMCall, pendingAcc, accReads, handlers, endEmitted>>
  /\ UNCHANGED <<mvars, cvars, others, lastCall, streamCalls, cells>>

\* next() whose original next() yields a chunk: its text is accumulated.
NextChunk(i) ==
  /\ i \in 1..iters
  /\ ~its[Under(i)].closed
  /\ its[Under(i)].pos < Len(chunks)
  /\ broadcast => its[Under(i)].pos < produced
  /\ LET c == chunks[its[Under(i)].pos + 1]
     IN /\ accumulatedText' = Accumulate(accumulatedText, extractText(c))
        /\ UNCHANGED finalMessage
        /\ deliveredText' = IF MixedUse THEN <<>> ELSE deliveredText \o DeltaOf(c)
  /\ UNCHANGED lastOp
  /\ its' = [its EXCEPT ![Under(i)].pos = @ + 1]
  /\ produced' = IF broadcast THEN produced ELSE produced + 1
  /\ UNCHANGED <<StreamInputs, iters, callbackFired, onLLMCall, pendingAcc, accReads, handlers,
                 endEmitted, textAtFire>>
  /\ UNCHANGED <<mvars, cvars, others, lastCall, streamCalls, cells>>

\* next() whose original next() yields done: the callback is fired.
NextDone(i) ==
  /\ i \in 1..iters
  /\ \/ its[Under(i)].closed
     \/ AtEnd(Under(i)) /\ ~streamError
  /\ Fire(1, accumulatedText, finalMessage)
  /\ its' = [its EXCEPT ![Under(i)].closed = TRUE]
  /\ lastOp' = "done"
  /\ UNCHANGED <<StreamInputs, produced, iters, accumulatedText, finalMessage, pendingAcc, accReads,
                 handlers, endEmitted, deliveredText>>
  /\ UNCHANGED <<mvars, cvars, others, lastCall, streamCalls, cells>>

\* next() whose original next() rejects: the rejection passes through.
NextRejects(i) ==
  /\ i \in 1..iters
  /\ ~its[Under(i)].closed
  /\ AtEnd(Under(i)) /\ streamError
  /\ its' = [its EXCEPT ![Under(i)].closed = TRUE]
  /\ lastOp' = "rejected"
  /\ UNCHANGED <<StreamInputs, produced, iters, accumulatedText, callbackFired,
                 finalMessage, onLLMCall, pendingAcc, accReads, handlers, endEmitted, deliveredText,
                 textAtFire>>
  /\ UNCHANGED <<mvars, cvars, others, lastCall, streamCalls, cells>>

\* return(value): fire, then forward to the original return() when it exists.
Return(i) ==
  /\ i \in 1..iters
  /\ Fire(ReturnFires(1), accumulatedText, finalMessage)
  /\ its' = IF origHasReturn THEN [its EXCEPT ![Under(i)].closed = TRUE] ELSE its
  /\ lastOp' = "return"
  /\ UNCHANGED <<StreamInputs, produced, iters, accumulatedText, finalMessage, pendingAcc, accReads,
                 handlers, endEmitted, deliveredText>>
  /\ UNCHANGED <<mvars, cvars, others, lastCall, streamCalls, cells>>

\* throw(error): forward to the original throw() when it exists, else rethrow.
Throw(i) ==
  /\ i \in 1..iters
  /\ its' = IF origHasThrow THEN [its EXCEPT ![Under(i)].closed = TRUE] ELSE its
  /\ lastOp' = "throw"
  /\ UNCHANGED <<StreamInputs, produced, iters, accumulatedText, callbackFired,
                 finalMessage, onLLMCall, pendingAcc, accReads, handlers, endEmitted, deliveredText,
                 textAtFire>>
  /\ UNCHANGED <<mvars, cvars, others, lastCall, streamCalls, cells>>

\* The provider's stream produces its next chunk by itself and emits the
\* 'text' event for a text delta: every wrapped text handler accumulates it.
Produce ==
  /\ provider # "none"
  /\ broadcast
  /\ produced < Len(chunks)
  /\ produced' = produced + 1
  /\ accumulatedText' =
       AccumulateTimes(accumulatedText, DeltaOf(chunks[produced + 1]), handlers["text"])
  /\ UNCHANGED <<StreamInputs, its, iters, callbackFired, finalMessage, onLLMCall,
                 pendingAcc, accReads, handlers, endEmitted, StreamHistory>>
  /\ UNCHANGED <<mvars, cvars, others, lastCall, streamCalls, cells>>

\* The finished stream emits 'message', 'finalMessage' (with the message) or
\* 'end' (without): every wrapped handler of that event fires the callback.
\* (An event nobody registered a wrapped handler for reaches no code.)
EmitEnd(e) ==
  /\ provider # "none"
  /\ broadcast
  /\ produced = Len(chunks)
  /\ ~streamError
  /\ e \in EndEvents \ endEmitted
  /\ handlers[e] > 0
  /\ endEmitted' = endEmitted \cup {e}
  /\ finalMessage' = IF handlers[e] > 0 /\ e # "end" THEN "message" ELSE finalMessage
  /\ Fire(handlers[e], accumulatedText, finalMessage')
  /\ lastOp' = "event"
  /\ UNCHANGED <<StreamInputs, produced, its, iters, accumulatedText, pendingAcc, accReads,
                 handlers, deliveredText>>
  /\ UNCHANGED <<mvars, cvars, others, lastCall, streamCalls, cells>>

\* stream.on(e, handler) through the proxy (anthropic.ts only).
RegisterOn(e) ==
  /\ provider = "anthropic"
  /\ e \in Events
  /\ Uses < MaxUses
  /\ handlers' = [handlers EXCEPT ![e] = @ + 1]
  /\ UNCHANGED lastOp
  /\ deliveredText' = <<>>
  /\ textAtFire' = <<>>
  /\ UNCHANGED <<StreamInputs, produced, its, iters, accumulatedText, callbackFired,
                 finalMessage, onLLMCall, pendingAcc, accReads, endEmitted>>
  /\ UNCHANGED <<mvars, cvars, others, lastCall, streamCalls, cells>>

\* The consumer reads or calls a final-result accessor through the proxy:
\* the wrapper's continuation waits for the original promise.
AccessorRead(a) ==
  /\ a \in Accessors(provider)
  /\ Uses < MaxUses
  /\ accReads' = accReads + 1
  /\ pendingAcc' = [pendingAcc EXCEPT ![a] = @ + 1]
  /\ UNCHANGED lastOp
  /\ deliveredText' = <<>>
  /\ textAtFire' = <<>>
  /\ UNCHANGED <<StreamInputs, produced, its, iters, accumulatedText, callbackFired,
                 finalMessage, onLLMCall, handlers, endEmitted>>
  /\ UNCHANGED <<mvars, cvars, others, lastCall, streamCalls, cells>>

AccessorTextSubstitutes(a, acc, fired, t) == t

\* The text a continuation leaves in accumulatedText when the original
\* accessor resolved with a message (or text) whose text is t.
AccessorText(a, acc, fired, t) ==
  CASE a \in {"finalMessage", "getFinalMessage"} ->
         IF t # <<>> /\ acc = <<>> THEN t ELSE acc
    [] a = "text" -> t
    [] a = "response" ->
         IF ~fired /\ t # <<>> /\ acc = <<>> THEN t ELSE acc

\* The original accessor resolves: the continuation runs and fires.
AccessorResolves(a) ==
  /\ a \in Accessors(provider)
  /\ pendingAcc[a] > 0
  /\ ~streamError
  /\ pendingAcc' = [pendingAcc EXCEPT ![a] = @ - 1]
  /\ UNCHANGED accReads
  /\ accumulatedText' = AccessorText(a, accumulatedText, callbackFired, FullText(chunks))
  /\ finalMessage' = IF a \in {"finalMessage", "getFinalMessage"} THEN "message"
                     ELSE finalMessage
  /\ Fire(1, accumulatedText', IF a = "response" THEN "message" ELSE finalMessage')
  /\ lastOp' = "resolved"
  /\ UNCHANGED <<StreamInputs, produced, its, iters, handlers, endEmitted, deliveredText>>
  /\ UNCHANGED <<mvars, cvars, others, lastCall, streamCalls, cells>>

\* The original accessor rejects: the continuation does not run.
AccessorRejects(a) ==
  /\ a \in Accessors(provider)
  /\ pendingAcc[a] > 0
  /\ streamError
  /\ pendingAcc' = [pendingAcc EXCEPT ![a] = @ - 1]
  /\ UNCHANGED accReads
  /\ lastOp' = "failed"
  /\ UNCHANGED <<StreamInputs, produced, its, iters, accumulatedText, callbackFired,
                 finalMessage, onLLMCall, handlers, endEmitted, deliveredText, textAtFire>>
  /\ UNCHANGED <<mvars, cvars, others, lastCall, streamCalls, cells>>

(***************************************************************************)
(* createWrappedIterator (anthropic.ts, google.ts), call by call           *)
(***************************************************************************)

\* Iteration results and rejections, as the consumer sees them.
Value(k) == [kind |-> "value", value |-> k]
Done(v) == [kind |-> "done", value |-> v]
Raised(e) == [kind |-> "rejected", value |-> e]
NotCalled == [kind |-> "notCalled", value |-> 0]

NoCall == [op |-> "none", orig |-> NotCalled, wrapped |-> NotCalled, accBefore |-> <<>>]

\* The values return(v) and throw(e) are called with, and the error a
\* failing stream rejects with.
ReturnValue == 7
ThrownError == 8
StreamFailure == 9

\* Chunks of three kinds: a text delta, an event without text, and a chunk
\* whose text cannot be extracted (its text() method throws).
ChunkTypes == {"delta", "other", "failing"}

TypedChunkAt(k, t) == [type |-> t, text |-> IF t = "delta" THEN <<k>> ELSE <<>>]

TypedStreams ==
  UNION {{[k \in 1..n |-> TypedChunkAt(k, d[k])] : d \in [1..n -> ChunkTypes]} : n \in 0..MaxChunks}

\* What originalIterator.next() answers now.
OriginalNext ==
  IF its[1].closed THEN Done(0)
  ELSE IF its[1].pos < Len(chunks) THEN Value(its[1].pos + 1)
  ELSE IF streamError THEN Raised(StreamFailure)
  ELSE Done(0)

NextResultRaising(r) ==
  IF r.kind = "value" /\ chunks[r.value].type = "failing" THEN Raised(ThrownError) ELSE r

\* next(): return result (a rejection of the original leaves next() as it is)
NextResult(r) == r

ReturnResultDropsValue(v) == Done(0)

\* return(value): the original's answer when it has a return method,
\* { done: true, value } otherwise.
ReturnResult(v) == Done(v)

IteratorFrame ==
  /\ UNCHANGED <<StreamInputs, iters, finalMessage, pendingAcc, accReads, handlers,
                 endEmitted, lastOp, deliveredText>>
  /\ UNCHANGED <<mvars, cvars, others, streamCalls, cells>>

\* next() on the wrapped iterator.
WrappedNext ==
  /\ provider # "none"
  /\ LET r == OriginalNext
     IN /\ lastCall' = [op |-> "next", orig |-> r, wrapped |-> NextResult(r),
                        accBefore |-> accumulatedText]
        /\ CASE r.kind = "value" ->
                   /\ accumulatedText' =
                        Accumulate(accumulatedText, extractText(chunks[r.value]))
                   /\ its' = [its EXCEPT ![1].pos = @ + 1]
                   /\ produced' = produced + 1
                   /\ UNCHANGED <<callbackFired, onLLMCall, textAtFire>>
             [] r.kind = "done" ->
                   /\ Fire(1, accumulatedText, finalMessage)
                   /\ its' = [its EXCEPT ![1].closed = TRUE]
                   /\ UNCHANGED <<accumulatedText, produced>>
             [] r.kind = "rejected" ->
                   /\ its' = [its EXCEPT ![1].closed = TRUE]
                   /\ UNCHANGED <<accumulatedText, produced, callbackFired, onLLMCall,
                                  textAtFire>>
  /\ IteratorFrame

\* return(value) on the wrapped iterator.
WrappedReturn ==
  /\ provider # "none"
  /\ Fire(ReturnFires(1), accumulatedText, finalMessage)
  /\ lastCall' = [op |-> "return",
                  orig |-> IF origHasReturn THEN Done(ReturnValue) ELSE NotCalled,
                  wrapped |-> ReturnResult(ReturnValue),
                  accBefore |-> accumulatedText]
  /\ its' = IF origHasReturn THEN [its EXCEPT ![1].closed = TRUE] ELSE its
  /\ UNCHANGED <<accumulatedText, produced>>
  /\ IteratorFrame

\* throw(error) on the wrapped iterator.
WrappedThrow ==
  /\ provider # "none"
  /\ lastCall' = [op |-> "throw",
                  orig |-> IF origHasThrow THEN Raised(ThrownError) ELSE NotCalled,
                  wrapped |-> Raised(ThrownError),
                  accBefore |-> accumulatedText]
  /\ its' = IF origHasThrow THEN [its EXCEPT ![1].closed = TRUE] ELSE its
  /\ UNCHANGED <<accumulatedText, produced, callbackFired, onLLMCall, textAtFire>>
  /\ IteratorFrame

(***************************************************************************)
(* Two streaming calls through one wrapped client                          *)
(***************************************************************************)

StreamCalls == 1..2

\* The k-th chunk of call c: a text delta recognisable as that call's, or an
\* event without text.
CallChunkAt(c, k, isDelta) ==
  IF isDelta THEN [type |-> "delta", text |-> <<10 * c + k>>]
  ELSE [type |-> "other", text |-> <<>>]

CallStreams(c) ==
  UNION {{[k \in 1..n |-> CallChunkAt(c, k, d[k])] : d \in [1..n -> BOOLEAN]} : n \in 0..MaxChunks}

AccumulatorShared(c) == 1

\* wrapStream / wrapStreamResponse declare accumulatedText and callbackFired
\* with let inside the function: every call has closure variables of its own.
AccumulatorOf(c) == c

IsolationFrame ==
  /\ UNCHANGED <<StreamInputs, produced, its, iters, accumulatedText, callbackFired,
                 finalMessage, onLLMCall, pendingAcc, accReads, handlers, endEmitted,
                 StreamHistory, lastCall>>
  /\ UNCHANGED <<mvars, cvars, others>>

\* fireCallback of call c: guarded by the callbackFired its closure holds,
\* it reports the accumulatedText its closure holds with the request of c.
CallFires(c) ==
  LET cell == cells[AccumulatorOf(c)]
      st == fireCallback([callbackFired |-> cell.fired, onLLMCall |-> streamCalls[c].reports],
                         cell.text)
  IN /\ cells' = [cells EXCEPT ![AccumulatorOf(c)].fired = st.callbackFired]
     /\ streamCalls' = [streamCalls EXCEPT ![c].reports = st.onLLMCall, ![c].ended = TRUE]

\* next() on the wrapped iterator of call c: a chunk is accumulated, done
\* fires the callback.
CallNext(c) ==
  /\ c \in DOMAIN streamCalls
  /\ ~streamCalls[c].ended
  /\ IF streamCalls[c].pos < Len(streamCalls[c].chunks)
     THEN /\ cells' = [cells EXCEPT ![AccumulatorOf(c)].text =
                          Accumulate(@, extractText(streamCalls[c].chunks[streamCalls[c].pos + 1]))]
          /\ streamCalls' = [streamCalls EXCEPT ![c].pos = @ + 1]
     ELSE CallFires(c)
  /\ IsolationFrame

\* return() on the wrapped iterator of call c: the consumer broke out.
CallReturn(c) ==
  /\ c \in DOMAIN streamCalls
  /\ ~streamCalls[c].ended
  /\ streamCalls[c].pos < Len(streamCalls[c].chunks)
  /\ CallFires(c)
  /\ IsolationFrame

(***************************************************************************)
(* OpenAIProvider.wrapCreateMethod called with stream: true                *)
(***************************************************************************)

\* The string "Unable to extract response": a text that is no concatenation
\* of deltas (the delta of the k-th chunk is k, from 1 on).
UnableToExtract == <<0>>

\* What the original create method can resolve with: a chat completion, a
\* legacy completion, or, with stream: true, a stream of chunks, which has no
\* choices property.
ResponseKinds == {"chat", "legacy", "stream"}

\* OpenAIProvider.extractResponse(response) for a response whose text is t.
extractResponse(kind, t) ==
  CASE kind = "chat"   -> IF t # <<>> THEN t ELSE UnableToExtract
    [] kind = "legacy" -> IF t # <<>> THEN t ELSE UnableToExtract
    [] kind = "stream" -> UnableToExtract

OpenAIFrame ==
  /\ UNCHANGED <<StreamInputs, accumulatedText, callbackFired, finalMessage, pendingAcc,
                 accReads, handlers, endEmitted, textAtFire>>
  /\ UNCHANGED <<mvars, cvars, others, lastCall, streamCalls, cells>>

\* create({..., stream: true}) through the wrapper: the original method
\* resolves with the stream, onLLMCall is called with
\* extractResponse(stream), and the stream itself is returned.
CreateStream ==
  /\ provider = "openai"
  /\ onLLMCall = <<>>
  /\ onLLMCall' = <<Report(extractResponse("stream", FullText(chunks)), "null")>>
  /\ iters' = 1
  /\ its' = <<[pos |-> 0, closed |-> FALSE]>>
  /\ UNCHANGED <<produced, lastOp, deliveredText>>
  /\ OpenAIFrame

\* The consumer reads the next chunk of the stream it was handed: the
\* provider's own iterator, which no code of the wrapper sees.
ConsumeChunk ==
  /\ provider = "openai"
  /\ iters = 1 /\ ~its[1].closed
  /\ its[1].pos < Len(chunks)
  /\ its' = [its EXCEPT ![1].pos = @ + 1]
  /\ produced' = produced + 1
  /\ deliveredText' = deliveredText \o DeltaOf(chunks[its[1].pos + 1])
  /\ UNCHANGED <<iters, onLLMCall, lastOp>>
  /\ OpenAIFrame

\* The consumer reaches the end of the stream: done, or the stream's error.
ConsumeEnd ==
  /\ provider = "openai"
  /\ iters = 1 /\ ~its[1].closed
  /\ its[1].pos = Len(chunks)
  /\ its' = [its EXCEPT ![1].closed = TRUE]
  /\ lastOp' = IF streamError THEN "rejected" ELSE "done"
  /\ UNCHANGED <<iters, produced, onLLMCall, deliveredText>>
  /\ OpenAIFrame

\* The consumer leaves its loop early: return() of the provider's iterator,
\* when it has one, closes it.
ConsumeBreak ==
  /\ provider = "openai"
  /\ iters = 1 /\ ~its[1].closed
  /\ its[1].pos < Len(chunks)
  /\ its' = IF origHasReturn THEN [its EXCEPT ![1].closed = TRUE] ELSE its
  /\ lastOp' = "return"
  /\ UNCHANGED <<iters, produced, onLLMCall, deliveredText>>
  /\ OpenAIFrame

(***************************************************************************)
(* Wrapped clients: OlakaiSDK.wrap, handleLLMCall, handleLLMError,         *)
(* checkControlAPI, sendMonitoring (sdk.ts) and the providers'             *)
(* wrapCreateMethod / wrapGenerateContent                                  *)
(***************************************************************************)

Providers == {"openai", "anthropic", "google"}

\* Values a provider's function rejects with: an Error, a string, a Symbol.
ProviderErrors == {"Error", "string", "symbol"}

\* A provider's function resolves with a response object, or with null.
ResponseShapes == {"ok", "null"}

\* x ?? d for an optional boolean
Coalesce(x, d) == IF x = "undefined" THEN d ELSE x = "true"

\* this.config.enableControl = config.enableControl ?? false
ConfigEnableControl == Coalesce(configEnableControl, FALSE)

\* wrapperConfig.enableControl ?? this.config.enableControl
EnableControl == Coalesce(wrapperEnableControl, ConfigEnableControl)

\* What the control endpoint can answer: allowed, or not allowed with or
\* without the details object.
ControlResponses == {"allow", "deny", "denyNoDetails"}

\* !response.allowed
NotAllowed(r) == r \in {"deny", "denyNoDetails"}

\* new OlakaiBlockedError(..., { detectedSensitivity: response.details.... })
\* reads a property of response.details: a TypeError when it is absent.
BlockedErrorOf(r) == IF r = "deny" THEN "OlakaiBlockedError" ELSE "TypeError"

\* error instanceof OlakaiBlockedError
IsBlockedError(e) == e = "OlakaiBlockedError"

\* response.details.detectedSensitivity of a control response: the list the
\* endpoint reported ("PII" stands for a non-empty list), undefined for a
\* response that has none.
DetectedSensitivity(r) == IF r = "deny" THEN "PII" ELSE "undefined"

\* this.sessionId = createId(), assigned in the constructor and nowhere else.
SessionId == "session-id"

\* What a caller can supply as chatId.
ChatIdOptions == {"undefined", "caller-chat"}

SessionChatIdOverridden(session, supplied) ==
  IF supplied # "undefined" THEN supplied ELSE session

\* chatId: this.sessionId (checkControlAPI, sendMonitoring and report of
\* OlakaiSDK)
SessionChatId(session, supplied) == session

\* The chatId of a payload: the session id for wrapped clients and event(),
\* context.chatId for generateText / streamText (vercel-ai.ts).
PayloadChatId ==
  IF sdkOp \in {"generateText", "streamText"}
  THEN suppliedChatId
  ELSE SessionChatId(SessionId, suppliedChatId)

ControlRequest ==
  [endpoint |-> "control", provider |-> "none", blocked |-> FALSE, error |-> FALSE,
   sensitivity |-> "undefined", chatId |-> PayloadChatId]

\* The payload sendMonitoring builds (llmMetadata.provider, blocked,
\* errorMessage present or not); it has no sensitivity field.
MonitoringRequest(blocked, error) ==
  [endpoint |-> "monitoring", provider |-> llmProvider, blocked |-> blocked,
   error |-> error, sensitivity |-> "undefined", chatId |-> PayloadChatId]

ClientInputs == <<initialized, llmProvider, configEnableControl, wrapperEnableControl,
                  suppliedChatId,
                  providerFails>>

\* sdk.wrap(client, config): throws unless init() has completed.
Wrap ==
  /\ cpc = "unwrapped"
  /\ cpc' = IF initialized THEN "idle" ELSE "wrapThrew"
  /\ UNCHANGED <<ClientInputs, hpc, providerCalls, control, csent, callerOutcome,
                 callbackOutcome, cunhandled, clogged>>
  /\ UNCHANGED <<mvars, svars, ProviderOutcome, vvars, nvars, dvars, bvars, blockedDetails>>

\* The caller calls the wrapped method: the wrapper calls the provider's
\* original method and awaits it.
CallWrappedMethod ==
  /\ cpc = "idle"
  /\ providerCalls' = providerCalls + 1
  /\ cpc' = "awaitOriginal"
  /\ UNCHANGED <<ClientInputs, hpc, control, csent, callerOutcome, callbackOutcome,
                 cunhandled, clogged>>
  /\ UNCHANGED <<mvars, svars, ProviderOutcome, vvars, nvars, dvars, bvars, blockedDetails>>

\* The original method resolves with a well-formed response: onLLMCall is
\* called and not awaited, the response is returned.  handleLLMCall runs up
\* to its first await: the control request when control is enabled, the
\* monitoring request otherwise.
OriginalResolves ==
  /\ cpc = "awaitOriginal"
  /\ ~providerFails
  /\ responseShape = "ok"
  /\ IF EnableControl
     THEN /\ csent' = Append(csent, ControlRequest)
          /\ control' = "pending"
          /\ hpc' = "awaitControl"
     ELSE /\ csent' = Append(csent, MonitoringRequest(FALSE, FALSE))
          /\ hpc' = "awaitMonitoring"
          /\ UNCHANGED control
  /\ callerOutcome' = Resolved("response")
  /\ cpc' = "done"
  /\ UNCHANGED <<ClientInputs, providerCalls, callbackOutcome, cunhandled, clogged>>
  /\ UNCHANGED <<mvars, svars, ProviderOutcome, vvars, nvars, dvars, bvars, blockedDetails>>

\* The original method resolves with null or undefined: reading
\* response.usage (openai, anthropic) or response.text (google) inside the
\* try block throws a TypeError, which the catch block treats as a failure of
\* the call: onLLMError is called and the TypeError thrown.
OriginalResolvesMalformed ==
  /\ cpc = "awaitOriginal"
  /\ ~providerFails
  /\ responseShape = "null"
  /\ csent' = Append(csent, MonitoringRequest(FALSE, TRUE))
  /\ hpc' = "awaitMonitoring"
  /\ callerOutcome' = Rejected("TypeError")
  /\ cpc' = "done"
  /\ UNCHANGED <<ClientInputs, providerCalls, control, callbackOutcome, cunhandled, clogged>>
  /\ UNCHANGED <<mvars, svars, ProviderOutcome, vvars, nvars, dvars, bvars, blockedDetails>>

\* The original method rejects: the catch block logs `${error}`, calls
\* onLLMError without awaiting it, and throws the error again.
\* handleLLMError sends the error report.
OriginalRejects ==
  /\ cpc = "awaitOriginal"
  /\ providerFails
  /\ IF TemplateThrows(providerError)
     THEN /\ callerOutcome' = Rejected("TypeError")
          /\ UNCHANGED <<csent, hpc>>
     ELSE /\ csent' = Append(csent, MonitoringRequest(FALSE, TRUE))
          /\ hpc' = "awaitMonitoring"
          /\ callerOutcome' = Rejected(providerError)
  /\ cpc' = "done"
  /\ UNCHANGED <<ClientInputs, providerCalls, control, callbackOutcome, cunhandled, clogged>>
  /\ UNCHANGED <<mvars, svars, ProviderOutcome, vvars, nvars, dvars, bvars, blockedDetails>>

\* checkControlAPI: the control request resolves with r.  Not allowed: the
\* blocked report is sent and awaited.  Allowed: handleLLMCall goes on to
\* its monitoring request.
ControlAnswers(r) ==
  /\ hpc = "awaitControl"
  /\ r \in ControlResponses
  /\ control' = r
  /\ IF NotAllowed(r)
     THEN /\ csent' = Append(csent, MonitoringRequest(TRUE, FALSE))
          /\ hpc' = "awaitBlockedMonitoring"
     ELSE /\ csent' = Append(csent, MonitoringRequest(FALSE, FALSE))
          /\ hpc' = "awaitMonitoring"
  /\ UNCHANGED <<ClientInputs, cpc, providerCalls, callerOutcome, callbackOutcome,
                 cunhandled, clogged>>
  /\ UNCHANGED <<mvars, svars, ProviderOutcome, vvars, nvars, dvars, bvars, blockedDetails>>

\* checkControlAPI: the control request rejects; the catch logs it and lets
\* the call through.
ControlFails ==
  /\ hpc = "awaitControl"
  /\ control' = "error"
  /\ clogged' = clogged + 1
  /\ csent' = Append(csent, MonitoringRequest(FALSE, FALSE))
  /\ hpc' = "awaitMonitoring"
  /\ UNCHANGED <<ClientInputs, cpc, providerCalls, callerOutcome, callbackOutcome, cunhandled>>
  /\ UNCHANGED <<mvars, svars, ProviderOutcome, vvars, nvars, dvars, bvars, blockedDetails>>

\* The blocked report settles (sendMonitoring swallows a failure), then the
\* blocked error is built and thrown.  OlakaiBlockedError leaves
\* checkControlAPI and handleLLMCall: the promise of onLLMCall rejects and
\* nobody handles it.  Any other error is logged by checkControlAPI and
\* handleLLMCall goes on to its monitoring request.
BlockedReportSettles(ok) ==
  /\ hpc = "awaitBlockedMonitoring"
  /\ IF IsBlockedError(BlockedErrorOf(control))
     THEN /\ callbackOutcome' = Rejected(BlockedErrorOf(control))
          /\ blockedDetails' = DetectedSensitivity(control)
          /\ cunhandled' = cunhandled + 1
          /\ clogged' = IF ok THEN clogged ELSE clogged + 1
          /\ hpc' = "done"
          /\ UNCHANGED csent
     ELSE /\ csent' = Append(csent, MonitoringRequest(FALSE, FALSE))
          /\ clogged' = IF ok THEN clogged + 1 ELSE clogged + 2
          /\ hpc' = "awaitMonitoring"
          /\ UNCHANGED <<callbackOutcome, cunhandled, blockedDetails>>
  /\ UNCHANGED <<ClientInputs, cpc, providerCalls, control, callerOutcome>>
  /\ UNCHANGED <<mvars, svars, ProviderOutcome, vvars, nvars, dvars, bvars>>

\* The monitoring request of handleLLMCall / handleLLMError settles:
\* sendMonitoring swallows a failure and the callback's promise resolves.
ReportSettles(ok) ==
  /\ hpc = "awaitMonitoring"
  /\ clogged' = IF ok THEN clogged ELSE clogged + 1
  /\ callbackOutcome' = Resolved("undefined")
  /\ hpc' = "done"
  /\ UNCHANGED <<ClientInputs, cpc, providerCalls, control, csent, callerOutcome, cunhandled>>
  /\ UNCHANGED <<mvars, svars, ProviderOutcome, vvars, nvars, dvars, bvars, blockedDetails>>

(***************************************************************************)
(* OlakaiSDK.generateText / streamText / event (sdk.ts) and                *)
(* VercelAIIntegration (vercel-ai.ts)                                      *)
(***************************************************************************)

SdkOps == {"generateText", "streamText", "event"}

\* context.enableControl ?? this.config.enableControl, where the
\* integration's config.enableControl is the SDK's.
VercelEnableControl == Coalesce(contextEnableControl, ConfigEnableControl)

\* throw new Error("[Olakai SDK] SDK not initialized. Call init() first.")
NotInitializedError == "Error: SDK not initialized"

\* throw new Error("[Olakai SDK] Vercel AI SDK ('ai' package) is not installed...")
NotInstalledError == "Error: ai package not installed"

\* The value a resolved provider call hands over.
ResponseOf(shape) == IF shape = "ok" THEN "response" ELSE "null"

VercelInputs == <<initialized, configEnableControl, providerFails, ProviderOutcome,
                  sdkOp, aiInstalled, contextEnableControl, hasFinishPromise>>

\* The variables of a wrapped client, which these operations do not touch.
ClientIdle == <<llmProvider, wrapperEnableControl, suppliedChatId, cpc, hpc,
                callbackOutcome>>

VercelFrame ==
  UNCHANGED <<VercelInputs, ClientIdle, mvars, svars, nvars, dvars, bvars, blockedDetails>>

\* generateTextFn(params) / streamTextFn(params) is called.
CallProvider ==
  /\ providerCalls' = providerCalls + 1
  /\ vpc' = "awaitProvider"

\* sdk.generateText / sdk.streamText is called: it throws unless init() has
\* completed, else the integration starts by importing the 'ai' package.
CallVercel ==
  /\ vpc = "idle"
  /\ sdkOp \in {"generateText", "streamText"}
  /\ IF initialized
     THEN vpc' = "awaitImport" /\ UNCHANGED callerOutcome
     ELSE vpc' = "done" /\ callerOutcome' = Rejected(NotInitializedError)
  /\ UNCHANGED <<providerCalls, control, csent, cunhandled, clogged, tpc>>
  /\ VercelFrame

\* await import("ai") settles; then the control check when control is
\* enabled, the provider call otherwise.
ImportSettles ==
  /\ vpc = "awaitImport"
  /\ IF ~aiInstalled
     THEN /\ callerOutcome' = Rejected(NotInstalledError)
          /\ vpc' = "done"
          /\ UNCHANGED <<providerCalls, control, csent>>
     ELSE IF VercelEnableControl
     THEN /\ csent' = Append(csent, ControlRequest)
          /\ control' = "pending"
          /\ vpc' = "awaitControl"
          /\ UNCHANGED <<providerCalls, callerOutcome>>
     ELSE /\ CallProvider
          /\ UNCHANGED <<control, csent, callerOutcome>>
  /\ UNCHANGED <<cunhandled, clogged, tpc>>
  /\ VercelFrame

\* VercelAIIntegration.checkControlAPI: the control request resolves with r.
VercelControlAnswers(r) ==
  /\ vpc = "awaitControl"
  /\ r \in ControlResponses
  /\ control' = r
  /\ IF NotAllowed(r)
     THEN /\ csent' = Append(csent, MonitoringRequest(TRUE, FALSE))
          /\ vpc' = "awaitBlockedMonitoring"
          /\ UNCHANGED providerCalls
     ELSE /\ CallProvider
          /\ UNCHANGED csent
  /\ UNCHANGED <<callerOutcome, cunhandled, clogged, tpc>>
  /\ VercelFrame

\* VercelAIIntegration.checkControlAPI: the control request rejects; the
\* catch logs it and execution continues with the provider call.
VercelControlFails ==
  /\ vpc = "awaitControl"
  /\ control' = "error"
  /\ clogged' = clogged + 1
  /\ CallProvider
  /\ UNCHANGED <<csent, callerOutcome, cunhandled, tpc>>
  /\ VercelFrame

\* The blocked report settles, then the blocked error is built and thrown:
\* OlakaiBlockedError reaches the caller; a TypeError from reading
\* response.details is logged and the provider is called.
VercelBlockedReportSettles(ok) ==
  /\ vpc = "awaitBlockedMonitoring"
  /\ IF IsBlockedError(BlockedErrorOf(control))
     THEN /\ callerOutcome' = Rejected(BlockedErrorOf(control))
          /\ blockedDetails' = DetectedSensitivity(control)
          /\ clogged' = IF ok THEN clogged ELSE clogged + 1
          /\ vpc' = "done"
          /\ UNCHANGED providerCalls
     ELSE /\ CallProvider
          /\ clogged' = IF ok THEN clogged + 1 ELSE clogged + 2
          /\ UNCHANGED <<callerOutcome, blockedDetails>>
  /\ UNCHANGED <<control, csent, cunhandled, tpc>>
  /\ UNCHANGED <<VercelInputs, ClientIdle, mvars, svars, nvars, dvars, bvars>>

\* generateText: the provider call resolves.  The success report is sent and
\* awaited; with a null result, reading result.text throws inside the try
\* block and the catch sends an error report instead.
GenerateResolves ==
  /\ vpc = "awaitProvider"
  /\ sdkOp = "generateText"
  /\ ~providerFails
  /\ IF responseShape = "ok"
     THEN /\ csent' = Append(csent, MonitoringRequest(FALSE, FALSE))
          /\ vpc' = "awaitMonitoring"
     ELSE /\ csent' = Append(csent, MonitoringRequest(FALSE, TRUE))
          /\ vpc' = "awaitErrorMonitoring"
  /\ UNCHANGED <<providerCalls, control, callerOutcome, cunhandled, clogged, tpc>>
  /\ VercelFrame

\* streamText: the provider call resolves.  trackStreamCompletion is
\* called without await and the result returned; a result without
\* finishPromise (or a null result, whose property read is caught) is not
\* tracked.
StreamTextResolves ==
  /\ vpc = "awaitProvider"
  /\ sdkOp = "streamText"
  /\ ~providerFails
  /\ tpc' = IF responseShape = "ok" /\ hasFinishPromise THEN "awaitFinish" ELSE "done"
  /\ clogged' = IF responseShape = "ok" THEN clogged ELSE clogged + 1
  /\ callerOutcome' = Resolved(ResponseOf(responseShape))
  /\ vpc' = "done"
  /\ UNCHANGED <<providerCalls, control, csent, cunhandled>>
  /\ VercelFrame

\* generateText / streamText: the provider call rejects.  The catch logs
\* `${error}`, sends the error report and awaits it.
VercelProviderRejects ==
  /\ vpc = "awaitProvider"
  /\ providerFails
  /\ IF TemplateThrows(providerError)
     THEN /\ callerOutcome' = Rejected("TypeError")
          /\ vpc' = "done"
          /\ UNCHANGED csent
     ELSE /\ csent' = Append(csent, MonitoringRequest(FALSE, TRUE))
          /\ vpc' = "awaitErrorMonitoring"
          /\ UNCHANGED callerOutcome
  /\ UNCHANGED <<providerCalls, control, cunhandled, clogged, tpc>>
  /\ VercelFrame

\* generateText: the awaited success report settles; return result.
VercelReportSettles(ok) ==
  /\ vpc = "awaitMonitoring"
  /\ clogged' = IF ok THEN clogged ELSE clogged + 1
  /\ callerOutcome' = Resolved(ResponseOf(responseShape))
  /\ vpc' = "done"
  /\ UNCHANGED <<providerCalls, control, csent, cunhandled, tpc>>
  /\ VercelFrame

\* The awaited error report settles; throw error.
VercelErrorReportSettles(ok) ==
  /\ vpc = "awaitErrorMonitoring"
  /\ clogged' = IF ok THEN clogged ELSE clogged + 1
  /\ callerOutcome' = Rejected(IF providerFails THEN providerError ELSE "TypeError")
  /\ vpc' = "done"
  /\ UNCHANGED <<providerCalls, control, csent, cunhandled, tpc>>
  /\ VercelFrame

\* trackStreamCompletion: finishPromise settles; resolved, the completion
\* report is sent; rejected, the catch logs it.
FinishSettles(ok) ==
  /\ tpc = "awaitFinish"
  /\ IF ok
     THEN /\ csent' = Append(csent, MonitoringRequest(FALSE, FALSE))
          /\ tpc' = "awaitMonitoring"
          /\ UNCHANGED clogged
     ELSE /\ clogged' = clogged + 1
          /\ tpc' = "done"
          /\ UNCHANGED csent
  /\ UNCHANGED <<providerCalls, control, callerOutcome, cunhandled, vpc>>
  /\ VercelFrame

\* sdk.event(params): before init() it logs a warning and returns; else
\* report() is started without await and event returns.
CallEvent ==
  /\ vpc = "idle"
  /\ sdkOp = "event"
  /\ IF initialized
     THEN /\ csent' = Append(csent, MonitoringRequest(FALSE, FALSE))
          /\ tpc' = "awaitMonitoring"
          /\ UNCHANGED clogged
     ELSE /\ clogged' = clogged + 1
          /\ UNCHANGED <<csent, tpc>>
  /\ callerOutcome' = Resolved("undefined")
  /\ vpc' = "done"
  /\ UNCHANGED <<providerCalls, control, cunhandled>>
  /\ VercelFrame

BackgroundReportUncaught(ok) ==
  /\ tpc = "awaitMonitoring"
  /\ cunhandled' = IF ok THEN cunhandled ELSE cunhandled + 1
  /\ tpc' = "done"
  /\ UNCHANGED <<providerCalls, control, csent, callerOutcome, clogged, vpc>>
  /\ VercelFrame

\* The report left behind un-awaited settles; a failure is caught and logged.
BackgroundReportSettles(ok) ==
  /\ tpc = "awaitMonitoring"
  /\ clogged' = IF ok THEN clogged ELSE clogged + 1
  /\ tpc' = "done"
  /\ UNCHANGED <<providerCalls, control, csent, callerOutcome, cunhandled, vpc>>
  /\ VercelFrame

(***************************************************************************)
(* Token accounting: extractResponseMetadata of the providers and          *)
(* extractMetadata of the Vercel AI integration                            *)
(***************************************************************************)

MaxTokens == 2

\* An optional value: undefined, or a value.
None == <<>>
Some(x) == <<x>>

\* x || 0 for an optional count
OrZero(x) == IF x = None THEN 0 ELSE x[1]

TokenCounts == {None} \cup {Some(n) : n \in 0..MaxTokens}

\* The usage object of a response, under canonical field names: prompt is
\* prompt_tokens / input_tokens / promptTokenCount / inputTokens, completion
\* is completion_tokens / output_tokens / candidatesTokenCount /
\* outputTokens, total is total_tokens / totalTokenCount / totalTokens.
UsageObjects == [prompt : TokenCounts, completion : TokenCounts, total : TokenCounts]

\* response.usage: absent, or an object.
Usages == {None} \cup {Some(u) : u \in UsageObjects}

Normalizers == {"openai", "anthropic", "google", "vercel"}

\* metadata.tokens = { prompt: ..., completion: ..., total: usage.total_tokens }
CopyTokens(u) ==
  IF u = None THEN None
  ELSE Some([prompt |-> u[1].prompt, completion |-> u[1].completion,
             total |-> u[1].total])

\* OpenAIProvider.extractResponseMetadata: metadata.tokens
OpenAITokens(u) == CopyTokens(u)

\* AnthropicProvider.extractResponseMetadata: metadata.tokens, with
\* total: (usage.input_tokens || 0) + (usage.output_tokens || 0)
AnthropicTokens(u) ==
  IF u = None THEN None
  ELSE Some([prompt |-> u[1].prompt, completion |-> u[1].completion,
             total |-> Some(OrZero(u[1].prompt) + OrZero(u[1].completion))])

\* GoogleProvider.extractResponseMetadata: metadata.tokens
GoogleTokens(u) == CopyTokens(u)

\* VercelAIIntegration.extractMetadata: metadata.tokens
VercelTokens(u) == CopyTokens(u)

NormalizerFrame ==
  UNCHANGED <<mvars, svars, cvars, ProviderOutcome, vvars, usage, normalizer, dvars, bvars>>

ExtractOpenAI ==
  /\ normalizer = "openai"
  /\ tokens' = OpenAITokens(usage)
  /\ NormalizerFrame

ExtractAnthropic ==
  /\ normalizer = "anthropic"
  /\ tokens' = AnthropicTokens(usage)
  /\ NormalizerFrame

ExtractGoogle ==
  /\ normalizer = "google"
  /\ tokens' = GoogleTokens(usage)
  /\ NormalizerFrame

ExtractVercel ==
  /\ normalizer = "vercel"
  /\ tokens' = VercelTokens(usage)
  /\ NormalizerFrame

(***************************************************************************)
(* The delivery client (client.ts): sendToAPI with retry and backoff, and  *)
(* the circuit breaker of an endpoint                                      *)
(***************************************************************************)

MaxRetries == 6

\* retries: config.retries ?? 4
DefaultRetries == 4

\* Exponential backoff: 1s, 2s, 4s, 8s ... up to 30s, in ms.
BaseDelay == 1000
MaxDelay == 30000

Min(a, b) == IF a <= b THEN a ELSE b

RECURSIVE Pow2(_)
Pow2(n) == IF n = 0 THEN 1 ELSE 2 * Pow2(n - 1)

NextDelayUncapped(ds) == IF ds = <<>> THEN BaseDelay ELSE ds[Len(ds)] * 2

\* The delay before the next retry, given the delays waited so far: the
\* first is the base delay, each later one doubles the one before, capped.
NextDelay(ds) == IF ds = <<>> THEN BaseDelay ELSE Min(ds[Len(ds)] * 2, MaxDelay)

RetriesLeftOffByOne(n, r) == n <= r + 1

\* After n attempts of a send configured with r retries, a retry is left.
RetriesLeft(n, r) == n <= r

DeliveryInputs == <<retries, endpoint, alwaysFails>>

DeliveryFrame == UNCHANGED <<DeliveryInputs, mvars, svars, cvars, ProviderOutcome, vvars, nvars, bvars>>

\* sendToAPI(payload, endpoint) is called: the first attempt is made.
SendToAPI ==
  /\ dpc = "idle"
  /\ attempts' = 1
  /\ dpc' = "attempting"
  /\ UNCHANGED <<delays, deliveryResult>>
  /\ DeliveryFrame

\* The attempt is answered with success: retrying stops.
AttemptSucceeds ==
  /\ dpc = "attempting"
  /\ ~alwaysFails
  /\ deliveryResult' = "delivered"
  /\ dpc' = "done"
  /\ UNCHANGED <<attempts, delays>>
  /\ DeliveryFrame

\* The attempt is answered with a 4xx: not retryable, retrying stops.
AttemptRejected ==
  /\ dpc = "attempting"
  /\ ~alwaysFails
  /\ deliveryResult' = "HTTPError"
  /\ dpc' = "done"
  /\ UNCHANGED <<attempts, delays>>
  /\ DeliveryFrame

\* The attempt fails transiently (network error, 5xx, timeout): back off
\* while a retry is left, else surface the delivery error.
AttemptFailsTransiently ==
  /\ dpc = "attempting"
  /\ IF RetriesLeft(attempts, retries)
     THEN /\ delays' = Append(delays, NextDelay(delays))
          /\ dpc' = "backoff"
          /\ UNCHANGED deliveryResult
     ELSE /\ deliveryResult' = "DeliveryError"
          /\ dpc' = "done"
          /\ UNCHANGED delays
  /\ UNCHANGED attempts
  /\ DeliveryFrame

\* The backoff delay has passed: the next attempt is made.
BackoffElapses ==
  /\ dpc = "backoff"
  /\ attempts' = attempts + 1
  /\ dpc' = "attempting"
  /\ UNCHANGED <<delays, deliveryResult>>
  /\ DeliveryFrame

MaxCalls == 3

MaxThreshold == 2

Calls == 1..MaxCalls

ProbeAdmittedAlways(claimed) == TRUE

\* The half-open transition is a critical section: the probe is admitted
\* only while no other call has claimed it.
ProbeAdmitted(claimed) == ~claimed

BreakerFrame ==
  UNCHANGED <<failureThreshold, mvars, svars, cvars, ProviderOutcome, vvars, nvars, dvars>>

\* A call to the endpoint starts.  Breaker closed: the request is issued.
\* Breaker open: the call fails fast.  Breaker half-open: the call claims the
\* trial probe if nobody has, else it fails fast.
BeginCall(c) ==
  /\ callPc[c] = "idle"
  /\ callStartedIn' = [callStartedIn EXCEPT ![c] = breakerState]
  /\ CASE breakerState = "closed" ->
            /\ callPc' = [callPc EXCEPT ![c] = "inFlight"]
            /\ UNCHANGED <<probeClaimed, callResult>>
       [] breakerState = "open" ->
            /\ callPc' = [callPc EXCEPT ![c] = "done"]
            /\ callResult' = [callResult EXCEPT ![c] = "CircuitOpenError"]
            /\ UNCHANGED probeClaimed
       [] breakerState = "halfOpen" ->
            IF ProbeAdmitted(probeClaimed)
            THEN /\ probeClaimed' = TRUE
                 /\ callPc' = [callPc EXCEPT ![c] = "probing"]
                 /\ UNCHANGED callResult
            ELSE /\ callPc' = [callPc EXCEPT ![c] = "done"]
                 /\ callResult' = [callResult EXCEPT ![c] = "CircuitOpenError"]
                 /\ UNCHANGED probeClaimed
  /\ breakerLast' = "begin"
  /\ UNCHANGED <<breakerState, consecutiveFailures>>
  /\ BreakerFrame

\* A request issued while the breaker was closed completes.  A success
\* resets the run of failures; a failure extends it and opens the breaker
\* when the run reaches the threshold.  Opening is idempotent, and a result
\* that arrives when the breaker is no longer closed does not move it.
CallCompletes(c, ok) ==
  /\ callPc[c] = "inFlight"
  /\ callPc' = [callPc EXCEPT ![c] = "done"]
  /\ callResult' = [callResult EXCEPT ![c] = IF ok THEN "ok" ELSE "failed"]
  /\ IF breakerState # "closed"
     THEN UNCHANGED <<breakerState, consecutiveFailures>>
     ELSE IF ok
     THEN consecutiveFailures' = 0 /\ UNCHANGED breakerState
     ELSE /\ consecutiveFailures' = consecutiveFailures + 1
          /\ breakerState' = IF consecutiveFailures + 1 >= failureThreshold
                             THEN "open" ELSE "closed"
  /\ breakerLast' = IF ok THEN "success" ELSE "failure"
  /\ UNCHANGED <<probeClaimed, callStartedIn>>
  /\ BreakerFrame

\* The cool-down window has passed: the breaker becomes half-open.
CoolDownElapses ==
  /\ breakerState = "open"
  /\ breakerState' = "halfOpen"
  /\ probeClaimed' = FALSE
  /\ breakerLast' = "coolDown"
  /\ UNCHANGED <<consecutiveFailures, callPc, callStartedIn, callResult>>
  /\ BreakerFrame

\* The trial probe completes: a success closes the breaker, a failure opens
\* it for another cool-down.
ProbeCompletes(c, ok) ==
  /\ callPc[c] = "probing"
  /\ callPc' = [callPc EXCEPT ![c] = "done"]
  /\ callResult' = [callResult EXCEPT ![c] = IF ok THEN "ok" ELSE "failed"]
  /\ breakerState' = IF ok THEN "closed" ELSE "open"
  /\ consecutiveFailures' = IF ok THEN 0 ELSE consecutiveFailures + 1
  /\ probeClaimed' = FALSE
  /\ breakerLast' = IF ok THEN "probeSuccess" ELSE "probeFailure"
  /\ UNCHANGED callStartedIn
  /\ BreakerFrame

(***************************************************************************)
(* Specifications                                                          *)
(***************************************************************************)

\* The provider's function resolves with a well-formed response.
ProviderPlain ==
  /\ providerError = "Error"
  /\ responseShape = "ok"

\* What the provider's function will do: resolve with a well-formed
\* response, resolve with null, or reject with some value.
ProviderInit ==
  /\ providerError \in ProviderErrors
  /\ responseShape \in ResponseShapes
  /\ providerFails => responseShape = "ok"
  /\ ~providerFails => providerError = "Error"

\* No generateText / streamText / event call is under way.
VercelOff ==
  /\ sdkOp = "none"
  /\ aiInstalled = TRUE
  /\ contextEnableControl = "undefined"
  /\ hasFinishPromise = FALSE
  /\ vpc = "off"
  /\ tpc = "none"

\* No normalizer is being applied.
DeliveryOff ==
  /\ retries = 0
  /\ endpoint = "none"
  /\ alwaysFails = FALSE
  /\ attempts = 0
  /\ delays = <<>>
  /\ dpc = "off"
  /\ deliveryResult = "none"

BreakerOff ==
  /\ failureThreshold = 0
  /\ breakerState = "off"
  /\ consecutiveFailures = 0
  /\ probeClaimed = FALSE
  /\ callPc = <<>>
  /\ callStartedIn = <<>>
  /\ callResult = <<>>
  /\ breakerLast = "none"

NormalizerOff ==
  /\ usage = "none"
  /\ normalizer = "none"
  /\ tokens = "none"

\* No monitor() invocation is under way.
MonitorOff ==
  /\ configOk = FALSE
  /\ options = [chatId |-> "undefined", email |-> "undefined",
                onMonitoredFunctionError |-> "undefined"]
  /\ fnKind = "syncReturn"
  /\ fnResult = "r1"
  /\ fnError = "Error"
  /\ clientFails = FALSE
  /\ globalEnableControl = FALSE
  /\ mpc = "off"
  /\ shouldAllow = "none"
  /\ controlResp = "none"
  /\ fnCalls = 0
  /\ fnCallLog = <<>>
  /\ sent = <<>>
  /\ flight = <<>>
  /\ unhandled = 0
  /\ logged = 0
  /\ outcome = Pending

\* The state of a streaming handle right after wrapStream.
StreamFresh ==
  /\ produced = 0
  /\ its = <<>>
  /\ iters = 0
  /\ accumulatedText = <<>>
  /\ callbackFired = FALSE
  /\ finalMessage = "null"
  /\ onLLMCall = <<>>
  /\ pendingAcc = [a \in AllAccessors |-> 0]
  /\ accReads = 0
  /\ handlers = [e \in Events |-> 0]
  /\ endEmitted = {}
  /\ lastOp = "none"
  /\ deliveredText = <<>>
  /\ textAtFire = <<>>
  /\ lastCall = NoCall
  /\ streamCalls = <<>>
  /\ cells = <<>>

\* No streaming handle exists.
StreamOff ==
  /\ provider = "none"
  /\ chunks = <<>>
  /\ streamError = FALSE
  /\ broadcast = FALSE
  /\ origHasReturn = FALSE
  /\ origHasThrow = FALSE
  /\ StreamFresh

\* The state of a call through a wrapped client before wrap().
ClientFresh ==
  /\ hpc = "none"
  /\ providerCalls = 0
  /\ control = "none"
  /\ csent = <<>>
  /\ callerOutcome = Pending
  /\ callbackOutcome = Pending
  /\ cunhandled = 0
  /\ clogged = 0
  /\ blockedDetails = "none"

\* No wrapped client exists.
ClientOff ==
  /\ initialized = FALSE
  /\ llmProvider = "openai"
  /\ configEnableControl = "undefined"
  /\ wrapperEnableControl = "undefined"
  /\ suppliedChatId = "undefined"
  /\ providerFails = FALSE
  /\ cpc = "off"
  /\ ClientFresh

StreamInit ==
  /\ provider \in {"anthropic", "google"}
  /\ chunks \in Streams
  /\ streamError \in BOOLEAN
  /\ broadcast \in (IF provider = "anthropic" THEN BOOLEAN ELSE {FALSE})
  /\ origHasReturn \in BOOLEAN
  /\ origHasThrow = origHasReturn
  /\ StreamFresh
  /\ MonitorOff
  /\ ClientOff
  /\ ProviderPlain /\ VercelOff /\ NormalizerOff
  /\ DeliveryOff /\ BreakerOff

\* One wrapped iterator of an Anthropic or Google stream, just created.
IteratorInit ==
  /\ provider \in {"anthropic", "google"}
  /\ chunks \in TypedStreams
  /\ streamError \in BOOLEAN
  /\ broadcast = FALSE
  /\ origHasReturn \in BOOLEAN
  /\ origHasThrow \in BOOLEAN
  /\ produced = 0
  /\ its = <<[pos |-> 0, closed |-> FALSE]>>
  /\ iters = 1
  /\ accumulatedText = <<>>
  /\ callbackFired = FALSE
  /\ finalMessage = "null"
  /\ onLLMCall = <<>>
  /\ pendingAcc = [a \in AllAccessors |-> 0]
  /\ accReads = 0
  /\ handlers = [e \in Events |-> 0]
  /\ endEmitted = {}
  /\ lastOp = "none"
  /\ deliveredText = <<>>
  /\ textAtFire = <<>>
  /\ lastCall = NoCall
  /\ streamCalls = <<>>
  /\ cells = <<>>
  /\ MonitorOff
  /\ ClientOff
  /\ ProviderPlain /\ VercelOff /\ NormalizerOff
  /\ DeliveryOff /\ BreakerOff

IteratorNext ==
  \/ WrappedNext
  \/ WrappedReturn
  \/ WrappedThrow

\* Two streaming calls have been made through one wrapped client and none
\* of the two handles has been consumed yet.
IsolationInit ==
  /\ streamCalls \in {[c \in StreamCalls |->
                         [chunks |-> f[c], pos |-> 0, ended |-> FALSE, reports |-> <<>>]] :
                       f \in {g \in [StreamCalls -> CallStreams(1) \cup CallStreams(2)] :
                                \A c \in StreamCalls : g[c] \in CallStreams(c)}}
  /\ cells = [c \in StreamCalls |-> [text |-> <<>>, fired |-> FALSE]]
  /\ provider \in {"anthropic", "google"}
  /\ chunks = <<>>
  /\ streamError = FALSE
  /\ broadcast = FALSE
  /\ origHasReturn = FALSE
  /\ origHasThrow = FALSE
  /\ produced = 0
  /\ its = <<>>
  /\ iters = 0
  /\ accumulatedText = <<>>
  /\ callbackFired = FALSE
  /\ finalMessage = "null"
  /\ onLLMCall = <<>>
  /\ pendingAcc = [a \in AllAccessors |-> 0]
  /\ accReads = 0
  /\ handlers = [e \in Events |-> 0]
  /\ endEmitted = {}
  /\ lastOp = "none"
  /\ deliveredText = <<>>
  /\ textAtFire = <<>>
  /\ lastCall = NoCall
  /\ MonitorOff
  /\ ClientOff
  /\ ProviderPlain /\ VercelOff /\ NormalizerOff
  /\ DeliveryOff /\ BreakerOff

IsolationNext ==
  \/ \E c \in StreamCalls : CallNext(c)
  \/ \E c \in StreamCalls : CallReturn(c)

\* One wrapped OpenAI client and one create call with stream: true.
OpenAIStreamInit ==
  /\ provider = "openai"
  /\ chunks \in Streams
  /\ streamError \in BOOLEAN
  /\ broadcast = FALSE
  /\ origHasReturn \in BOOLEAN
  /\ origHasThrow = origHasReturn
  /\ StreamFresh
  /\ MonitorOff
  /\ ClientOff
  /\ ProviderPlain /\ VercelOff /\ NormalizerOff
  /\ DeliveryOff /\ BreakerOff

OpenAIStreamNext ==
  \/ CreateStream
  \/ ConsumeChunk
  \/ ConsumeEnd
  \/ ConsumeBreak

StreamNext ==
  \/ GetIterator
  \/ \E i \in 1..MaxUses : NextChunk(i)
  \/ \E i \in 1..MaxUses : NextDone(i)
  \/ \E i \in 1..MaxUses : NextRejects(i)
  \/ \E i \in 1..MaxUses : Return(i)
  \/ \E i \in 1..MaxUses : Throw(i)
  \/ Produce
  \/ \E e \in EndEvents : EmitEnd(e)
  \/ \E e \in Events : RegisterOn(e)
  \/ \E a \in AllAccessors : AccessorRead(a)
  \/ \E a \in AllAccessors : AccessorResolves(a)
  \/ \E a \in AllAccessors : AccessorRejects(a)

ClientInit ==
  /\ initialized \in BOOLEAN
  /\ llmProvider \in Providers
  /\ configEnableControl \in FlagOptions
  /\ wrapperEnableControl \in FlagOptions
  /\ suppliedChatId \in ChatIdOptions
  /\ providerFails \in BOOLEAN
  /\ cpc = "unwrapped"
  /\ ClientFresh
  /\ ProviderInit
  /\ MonitorOff
  /\ StreamOff
  /\ VercelOff /\ NormalizerOff
  /\ DeliveryOff /\ BreakerOff

ClientNext ==
  \/ Wrap
  \/ CallWrappedMethod
  \/ OriginalResolves
  \/ OriginalResolvesMalformed
  \/ OriginalRejects
  \/ \E r \in ControlResponses : ControlAnswers(r)
  \/ ControlFails
  \/ \E ok \in BOOLEAN : BlockedReportSettles(ok)
  \/ \E ok \in BOOLEAN : ReportSettles(ok)

Init ==
  /\ MonitorInit /\ StreamOff /\ ClientOff
  /\ ProviderPlain /\ VercelOff /\ NormalizerOff
  /\ DeliveryOff /\ BreakerOff

Next == MonitorNext

\* The wrapped-client variables when the SDK is used without wrap().
ClientUnused ==
  /\ llmProvider = "openai"
  /\ wrapperEnableControl = "undefined"
  /\ cpc = "off"
  /\ ClientFresh

VercelInit ==
  /\ initialized \in BOOLEAN
  /\ configEnableControl \in FlagOptions
  /\ providerFails \in BOOLEAN
  /\ ProviderInit
  /\ sdkOp \in SdkOps
  /\ aiInstalled \in BOOLEAN
  /\ contextEnableControl \in FlagOptions
  /\ suppliedChatId \in ChatIdOptions
  /\ hasFinishPromise \in BOOLEAN
  /\ vpc = "idle"
  /\ tpc = "none"
  /\ ClientUnused
  /\ MonitorOff
  /\ StreamOff
  /\ NormalizerOff
  /\ DeliveryOff /\ BreakerOff

VercelNext ==
  \/ CallVercel
  \/ ImportSettles
  \/ \E r \in ControlResponses : VercelControlAnswers(r)
  \/ VercelControlFails
  \/ \E ok \in BOOLEAN : VercelBlockedReportSettles(ok)
  \/ GenerateResolves
  \/ StreamTextResolves
  \/ VercelProviderRejects
  \/ \E ok \in BOOLEAN : VercelReportSettles(ok)
  \/ \E ok \in BOOLEAN : VercelErrorReportSettles(ok)
  \/ \E ok \in BOOLEAN : FinishSettles(ok)
  \/ CallEvent
  \/ \E ok \in BOOLEAN : BackgroundReportSettles(ok)

\* One call of a normalizer on a response: metadata starts empty.
NormalizerInit ==
  /\ usage \in Usages
  /\ normalizer \in Normalizers
  /\ tokens = None
  /\ DeliveryOff /\ BreakerOff
  /\ MonitorOff
  /\ StreamOff
  /\ ClientOff
  /\ ProviderPlain
  /\ VercelOff

NormalizerNext ==
  \/ ExtractOpenAI
  \/ ExtractAnthropic
  \/ ExtractGoogle
  \/ ExtractVercel

\* One sendToAPI call.
DeliveryInit ==
  /\ retries \in 0..MaxRetries
  /\ endpoint \in {"monitoring", "control"}
  /\ alwaysFails \in BOOLEAN
  /\ attempts = 0
  /\ delays = <<>>
  /\ dpc = "idle"
  /\ deliveryResult = "none"
  /\ BreakerOff
  /\ MonitorOff
  /\ StreamOff
  /\ ClientOff
  /\ ProviderPlain
  /\ VercelOff
  /\ NormalizerOff

DeliveryNext ==
  \/ SendToAPI
  \/ AttemptSucceeds
  \/ AttemptRejected
  \/ AttemptFailsTransiently
  \/ BackoffElapses

\* The breaker of one endpoint, closed, and the calls that will use it.
BreakerInit ==
  /\ failureThreshold \in 1..MaxThreshold
  /\ breakerState = "closed"
  /\ consecutiveFailures = 0
  /\ probeClaimed = FALSE
  /\ callPc = [c \in Calls |-> "idle"]
  /\ callStartedIn = [c \in Calls |-> "none"]
  /\ callResult = [c \in Calls |-> "none"]
  /\ breakerLast = "none"
  /\ DeliveryOff
  /\ MonitorOff
  /\ StreamOff
  /\ ClientOff
  /\ ProviderPlain
  /\ VercelOff
  /\ NormalizerOff

BreakerNext ==
  \/ \E c \in Calls : BeginCall(c)
  \/ \E c \in Calls, ok \in BOOLEAN : CallCompletes(c, ok)
  \/ CoolDownElapses
  \/ \E c \in Calls, ok \in BOOLEAN : ProbeCompletes(c, ok)

\* One operation of the SDK: a monitor()-wrapped call, a call through a
\* wrapped client, or generateText / streamText / event.
SdkInit == Init \/ ClientInit \/ VercelInit

SdkNext == MonitorNext \/ ClientNext \/ VercelNext


\* One invocation of a monitor()-wrapped function.
Spec == Init /\ [][Next]_vars

\* One streaming handle and its consumer.
StreamSpec == StreamInit /\ [][StreamNext]_vars

\* The calls a consumer makes on one wrapped iterator.
IteratorSpec == IteratorInit /\ [][IteratorNext]_vars

\* Two streaming calls through one wrapped client, consumed in any order.
IsolationSpec == IsolationInit /\ [][IsolationNext]_vars

\* One streaming create call through a wrapped OpenAI client.
OpenAIStreamSpec == OpenAIStreamInit /\ [][OpenAIStreamNext]_vars

\* One call of a provider method through a client wrapped by OlakaiSDK.wrap.
ClientSpec == ClientInit /\ [][ClientNext]_vars

\* One operation of the SDK, whichever it is.
SdkSpec == SdkInit /\ [][SdkNext]_vars

\* One call of a token normalizer.
NormalizerSpec == NormalizerInit /\ [][NormalizerNext]_vars

\* One send of the delivery client.
DeliverySpec == DeliveryInit /\ [][DeliveryNext]_vars

\* The circuit breaker of one endpoint under concurrent calls.
BreakerSpec == BreakerInit /\ [][BreakerNext]_vars

(***************************************************************************)
(* Claims about monitor()                                                  *)
(***************************************************************************)

FnSucceeds == fnKind \in {"syncReturn", "asyncResolve"}
FnRaises == fnKind \in {"syncThrow", "asyncReject"}

\* C1 Fail-closed control in monitor(): with configuration available, when
\* the control request fails the callable is never invoked, the wrapper never
\* resolves, and once it has settled it has rejected with OlakaiBlockedError.
C1_FailClosed ==
  (configOk /\ controlResp = "error") =>
     /\ fnCalls = 0
     /\ outcome.kind # "resolved"
     /\ (mpc = "done" => outcome = Rejected("OlakaiBlockedError"))

C1_Witness ==
  configOk /\ controlResp = "error" /\ mpc = "done"
  /\ outcome = Rejected("OlakaiBlockedError")

\* C2 as stated: in every invocation the callable is invoked only once the
\* control check has completed with an allow verdict.
C2_Original == \A i \in 1..Len(fnCallLog) : fnCallLog[i] = "allowed"

\* C2 amended: in every invocation with configuration available (getConfig()
\* does not throw), the callable is invoked only once the control check has
\* completed with an allow verdict; a failed control check has become a deny
\* verdict and the callable is not invoked.
C2_ControlBeforeExecution ==
  configOk =>
    /\ \A i \in 1..Len(fnCallLog) : fnCallLog[i] = "allowed"
    /\ (fnCalls > 0 => controlResp \in {"allow", "deny"} /\ flight[1] = "resolved")
    /\ (shouldAllow = "denied" => fnCalls = 0)

C2_Witness == configOk /\ fnCalls = 1 /\ shouldAllow = "allowed" /\ mpc = "done"

\* C3 Error passthrough in monitor(): when the callable raised E, the promise
\* of the wrapper rejects with that same E, for every E.
C3_ErrorPassthrough ==
  (FnRaises /\ fnCalls = 1 /\ mpc = "done") => outcome = Rejected(fnError)

\* C4 Reporting never breaks the caller: with every sendToAPI call rejecting,
\* a callable that succeeds still runs and the wrapper resolves with its result.
C4_ReportingNeverBreaksCaller ==
  (clientFails /\ FnSucceeds /\ mpc = "done") =>
     (fnCalls = 1 /\ outcome = Resolved(fnResult))

(***************************************************************************)
(* Claims about the streaming wrappers                                     *)
(***************************************************************************)

\* C5 Completion at most once: whatever the consumer does with one handle,
\* and in whatever order, onLLMCall has been invoked at most once, and the
\* completion flag is set exactly when that one invocation has happened (so
\* it never goes back to false and never goes to true a second time).
C5_CompletionAtMostOnce ==
  /\ Len(onLLMCall) <= 1
  /\ callbackFired <=> Len(onLLMCall) = 1

\* An iterator completed the stream first (its report carries no final
\* message), then a final-result accessor resolved and fired again.
C5_Witness ==
  /\ lastOp = "resolved"
  /\ iters = 1 /\ accReads = 1
  /\ Len(onLLMCall) = 1 /\ onLLMCall[1].final = "null"

\* C6 Completion exactly once on every supported termination: once next()
\* has returned done, or return() has been called, or a final-result accessor
\* has resolved, exactly one completion report has been made.
C6_CompletionExactlyOnce ==
  lastOp \in {"done", "return", "resolved"} => Len(onLLMCall) = 1

\* The consumer's only use of the handle is one iterator, and it broke out
\* after the first chunk with more chunks to come.
C6_Witness ==
  /\ lastOp = "return"
  /\ Uses = 1 /\ iters = 1
  /\ its[1].pos = 1 /\ Len(chunks) > 1
  /\ Len(onLLMCall) = 1

\* C7 Early termination by propagated error: once the original next() has
\* rejected, or throw() has been called on the wrapped iterator, exactly one
\* completion report has been made.
C7_ErrorTerminationReports ==
  lastOp \in {"rejected", "throw"} => Len(onLLMCall) = 1

\* C8 Accumulated text integrity: with a single consumer that only iterates,
\* the reported text is the concatenation, in order, of the text deltas of
\* the chunks the consumer had received when the report was made; a consumer
\* that has exhausted the stream has received every delta of the stream.
C8_AccumulatedTextIntegrity ==
  /\ (~MixedUse /\ Len(onLLMCall) = 1) => onLLMCall[1].text = textAtFire
  /\ (~MixedUse /\ ~broadcast /\ iters = 1) =>
        deliveredText = FullText(SubSeq(chunks, 1, its[1].pos))
  /\ (~MixedUse /\ ~broadcast /\ iters = 1 /\ lastOp = "done"
        /\ textAtFire = deliveredText /\ its[1].pos = Len(chunks)) =>
        onLLMCall[1].text = FullText(chunks)

\* A stream of two text deltas iterated to exhaustion by its one consumer.
C8_Witness ==
  /\ ~MixedUse /\ iters = 1 /\ lastOp = "done"
  /\ Len(chunks) >= 2 /\ its[1].pos = Len(chunks)
  /\ Len(onLLMCall) = 1 /\ onLLMCall[1].text = FullText(chunks)
  /\ Len(FullText(chunks)) >= 2

\* The text t holds no delta of the stream more than once, and holds its
\* deltas in the order the stream produced them (the k-th chunk's delta is k).
OnceInOrder(t) == \A i, j \in 1..Len(t) : i < j => t[i] < t[j]

\* C30 Each produced delta is counted once under mixed consumption: however
\* the consumer of an Anthropic streaming handle mixes iterators and
\* on('text') handlers, and however many of each it uses, the reported text
\* holds each produced text delta once, in production order.
C30_DeltaCountedOnce ==
  provider = "anthropic" =>
     \A r \in 1..Len(onLLMCall) : OnceInOrder(onLLMCall[r].text)

(***************************************************************************)
(* Claims about wrapped clients                                            *)
(***************************************************************************)

\* C9 Blocked call reaches the caller: with control enabled, when the control
\* response has allowed = false, the call of the wrapped provider method has
\* not resolved, and once it has settled it has rejected with
\* OlakaiBlockedError.
C9_BlockedCallReachesCaller ==
  (EnableControl /\ NotAllowed(control)) =>
     /\ callerOutcome.kind # "resolved"
     /\ (cpc = "done" => callerOutcome = Rejected("OlakaiBlockedError"))

\* C10 Control before execution: with control enabled, the provider's
\* original method is invoked only once the control check has completed, and
\* a denied call never reaches the provider.
C10_ControlBeforeProvider ==
  EnableControl =>
     /\ (providerCalls > 0 => control \in ControlResponses \cup {"error"})
     /\ (NotAllowed(control) => providerCalls = 0)

(***************************************************************************)
(* Claims about control, reporting and passthrough across entry points     *)
(***************************************************************************)

\* C11 Fail-closed control (wrapped clients and Vercel AI): with control
\* enabled, once the control request has rejected, checkControlAPI raises
\* OlakaiBlockedError: the callback of a wrapped client rejects with it, and
\* generateText / streamText reject with it without calling the provider.
C11_FailClosedControl ==
  control = "error" =>
     /\ (hpc = "done" => callbackOutcome = Rejected("OlakaiBlockedError"))
     /\ (vpc = "done" => callerOutcome = Rejected("OlakaiBlockedError"))
     /\ (vpc # "off" => providerCalls = 0)

\* C12 Deny verdict obeyed by monitor(): when the control request succeeds
\* with allowed = false, the callable is not invoked, and the settled wrapper
\* has sent a MonitorPayload with blocked = true and rejected with
\* OlakaiBlockedError.
C12_DenyVerdictObeyed ==
  (configOk /\ controlResp = "deny") =>
     /\ fnCalls = 0
     /\ (mpc = "done" =>
           /\ outcome = Rejected("OlakaiBlockedError")
           /\ \E i \in 1..Len(sent) :
                sent[i].endpoint = "monitoring" /\ sent[i].blocked = "true")

\* C13 Exactly one MonitorPayload per logical call: an invocation through
\* monitor() with configuration available that has settled -- by success, by
\* failure of the callable or by a block -- has sent exactly one
\* MonitorPayload, for every setting of the monitor options.
C13_ExactlyOneMonitorPayload ==
  (configOk /\ mpc = "done") =>
     Cardinality({i \in 1..Len(sent) : sent[i].endpoint = "monitoring"}) = 1

\* C14 Unmonitored execution when uninitialized: when getConfig() throws,
\* no control request and no monitoring request is ever sent, the callable is
\* invoked exactly once, and the wrapper settles with the callable's own
\* result or error.
C14_UnmonitoredExecution ==
  ~configOk /\ mpc # "off" =>
     /\ sent = <<>>
     /\ fnCalls <= 1
     /\ (mpc = "done" =>
           /\ fnCalls = 1
           /\ outcome = IF FnRaises THEN Rejected(fnError) ELSE Resolved(fnResult))

C14_Witness ==
  /\ ~configOk
  /\ mpc = "done"
  /\ fnCalls = 1
  /\ sent = <<>>
  /\ fnKind = "asyncReject"
  /\ outcome = Rejected(fnError)

\* C15 Identifier fallback: when options.chatId or options.email is a
\* resolver function that throws, the invocation proceeds as if the resolver
\* had not failed: the control request is sent as its first payload, and
\* every payload carries "123" for a failed chatId resolver and
\* "anonymous@olakai.ai" for a failed email resolver, each independently of
\* the other.
C15_IdentifierFallback ==
  (configOk /\ mpc # "idle" /\ (ResolverThrows(options.chatId) \/ ResolverThrows(options.email))) =>
     /\ Len(sent) >= 1
     /\ sent[1].endpoint = "control"
     /\ \A i \in 1..Len(sent) :
          /\ ResolverThrows(options.chatId) => sent[i].chatId = "123"
          /\ ResolverThrows(options.email) => sent[i].email = "anonymous@olakai.ai"

\* C16 Fire-and-continue on success: the result is returned without waiting
\* for the delivery of the monitoring report.  In monitor(), as soon as the
\* success payload has been handed to sendToAPI the wrapper has resolved with
\* the callable's result, whether or not that send ever settles; in a wrapped
\* client, as soon as the un-awaited callback has started the wrapped method
\* has settled, with the provider's response when that is well formed.
C16_FireAndContinue ==
  /\ \A i \in 1..Len(sent) :
       (sent[i].endpoint = "monitoring" /\ sent[i].blocked = "false") =>
          (outcome.kind = "resolved" /\ outcome.value = fnResult)
  /\ (cpc # "off" /\ hpc # "none") =>
          /\ callerOutcome.kind # "pending"
          /\ (~providerFails /\ responseShape = "ok" =>
                callerOutcome.kind = "resolved" /\ callerOutcome.value = "response")

C16_Witness ==
  /\ outcome.kind = "resolved"
  /\ outcome.value = fnResult
  /\ \E i \in 1..Len(sent) :
       /\ sent[i].endpoint = "monitoring"
       /\ sent[i].blocked = "false"
       /\ flight[i] = "pending"

\* The reports of csent that carry an errorMessage and are not blocked / that
\* carry neither.
ErrorReports ==
  {i \in 1..Len(csent) :
     csent[i].endpoint = "monitoring" /\ csent[i].error /\ ~csent[i].blocked}

SuccessReports ==
  {i \in 1..Len(csent) :
     csent[i].endpoint = "monitoring" /\ ~csent[i].error /\ ~csent[i].blocked}

\* C17 Provider error passthrough: when the provider's function raised E
\* inside a wrapped provider method or inside generateText / streamText, the
\* settled call has raised that same E, exactly one error report
\* (errorMessage set, blocked = false) has been sent and no success report.
C17_ProviderErrorPassthrough ==
  (providerFails /\ providerCalls = 1 /\ (cpc = "done" \/ vpc = "done")) =>
     /\ callerOutcome = Rejected(providerError)
     /\ Cardinality(ErrorReports) = 1
     /\ SuccessReports = {}

\* C18 Telemetry failures never surface on a successful provider call: when
\* the provider's function resolved with R, the settled wrapped call has
\* resolved with R, whatever the shape of R and whatever became of metadata
\* extraction and dispatch, and no error report has been sent.
C18_TelemetryFailuresNeverSurface ==
  (~providerFails /\ providerCalls = 1 /\ (cpc = "done" \/ vpc = "done")) =>
     /\ callerOutcome = Resolved(ResponseOf(responseShape))
     /\ ErrorReports = {}

\* C20 Operations before initialization: every operation of OlakaiSDK taken
\* before init() has completed (wrap, generateText, streamText, event) fails
\* with the not-initialized error, sends no request and calls no provider
\* function.
C20_OperationsBeforeInit ==
  ~initialized =>
     /\ csent = <<>>
     /\ providerCalls = 0
     /\ cpc \in {"off", "unwrapped", "wrapThrew"}
     /\ (vpc = "done" => callerOutcome = Rejected(NotInitializedError))

\* C21 event() is fire-and-forget and fail-safe: on an initialized SDK,
\* event(params) has returned as soon as its report has been handed to
\* sendToAPI, whether or not that send ever settles; it has dispatched
\* exactly one monitoring payload, with blocked = false; and a failing send
\* neither makes event throw nor leaves an unhandled rejection.
C21_EventFireAndForget ==
  (sdkOp = "event" /\ initialized /\ vpc # "idle") =>
     /\ callerOutcome = Resolved("undefined")
     /\ Len(csent) = 1
     /\ csent[1].endpoint = "monitoring"
     /\ ~csent[1].blocked
     /\ cunhandled = 0

C21_Witness ==
  /\ sdkOp = "event"
  /\ initialized
  /\ callerOutcome = Resolved("undefined")
  /\ tpc = "done"
  /\ clogged = 1
  /\ cunhandled = 0

\* C25 Blocked-path ordering: whenever the blocked error has been raised the
\* blocked = true report has been dispatched before it -- in monitor() the
\* send was issued before the throw, in the two checkControlAPI the report
\* was awaited first, so that nothing is raised while it is awaited -- and
\* in the Vercel path the provider function is never called for a denied
\* call.
C25_BlockedPathOrdering ==
  /\ outcome = Rejected("OlakaiBlockedError") =>
        \E i \in 1..Len(sent) : sent[i].endpoint = "monitoring" /\ sent[i].blocked = "true"
  /\ (callbackOutcome = Rejected("OlakaiBlockedError")
        \/ callerOutcome = Rejected("OlakaiBlockedError")) =>
        \E i \in 1..Len(csent) : csent[i].endpoint = "monitoring" /\ csent[i].blocked
  /\ hpc = "awaitBlockedMonitoring" => callbackOutcome = Pending
  /\ vpc = "awaitBlockedMonitoring" => callerOutcome = Pending
  /\ (vpc # "off" /\ NotAllowed(control)) => providerCalls = 0

\* C26 Every monitoring send is fail-safe: for each monitoring send issued
\* by monitor(), on the success path, the error path and the blocked path
\* alike, a failure of the send is caught where it was issued and never
\* escapes as an unhandled rejection.
C26_MonitoringSendFailSafe ==
  /\ unhandled = 0
  /\ \A i \in 1..Len(sent) :
       (sent[i].endpoint = "monitoring" /\ flight[i] = "rejected") => sent[i].handled

\* C27 Control check only when enabled (monitor): an invocation through
\* monitor() sends a control request only when control is enabled; with
\* control disabled no control request is sent, and the callable is executed
\* without a verdict.
C27_ControlOnlyWhenEnabled ==
  (configOk /\ ~globalEnableControl) =>
     /\ \A i \in 1..Len(sent) : sent[i].endpoint # "control"
     /\ (mpc = "done" => fnCalls = 1)

\* A control request is among the requests sent.
ControlRequested == \E i \in 1..Len(csent) : csent[i].endpoint = "control"

\* The per-wrapper / per-call setting overrides the SDK-level setting when it
\* is defined; the SDK-level default is false.
EffectiveEnableControl(local, global) ==
  IF local # "undefined" THEN local = "true" ELSE global = "true"

\* C28 Effective control switch (wrapped clients and Vercel AI): a control
\* request is sent for a call if and only if the effective enableControl is
\* true: never when it is false, and for every call through a wrapped method
\* that has settled, and every generateText / streamText call that has got
\* past its import, when it is true.
C28_EffectiveControlSwitch ==
  /\ cpc # "off" =>
       /\ ControlRequested =>
            EffectiveEnableControl(wrapperEnableControl, configEnableControl)
       /\ (cpc = "done" /\ EffectiveEnableControl(wrapperEnableControl, configEnableControl)) =>
            ControlRequested
  /\ (vpc # "off" /\ sdkOp # "event") =>
       /\ ControlRequested =>
            EffectiveEnableControl(contextEnableControl, configEnableControl)
       /\ (/\ initialized
           /\ aiInstalled
           /\ vpc \notin {"idle", "awaitImport"}
           /\ EffectiveEnableControl(contextEnableControl, configEnableControl)) =>
            ControlRequested

(***************************************************************************)
(* Claims about token accounting                                           *)
(***************************************************************************)

\* C19 Token total derivation: for every normalizer, when the usage of the
\* response carries prompt and completion counts p and c and no explicit
\* total, the canonical tokens.total is p + c.
C19_TokenTotalDerivation ==
  (/\ tokens # None
   /\ usage # None
   /\ usage[1].prompt # None
   /\ usage[1].completion # None
   /\ usage[1].total = None) =>
     tokens[1].total = Some(usage[1].prompt[1] + usage[1].completion[1])

(***************************************************************************)
(* Claims about the delivery client                                        *)
(***************************************************************************)

\* C22 Retry boundary: a send configured with retries = 4 against an
\* endpoint that always fails transiently never makes more than 5 attempts,
\* and when it ends it has made exactly 5 attempts (1 initial + 4 retries)
\* and surfaced the delivery error; in general it ends after retries + 1
\* attempts.
C22_RetryBoundary ==
  alwaysFails /\ dpc # "off" =>
     /\ attempts <= retries + 1
     /\ (dpc = "done" => attempts = retries + 1 /\ deliveryResult = "DeliveryError")
     /\ (dpc # "done" => deliveryResult = "none")
     /\ (retries = DefaultRetries => attempts <= 5 /\ (dpc = "done" => attempts = 5))

C22_Witness ==
  /\ retries = DefaultRetries
  /\ alwaysFails
  /\ dpc = "done"
  /\ attempts = 5
  /\ deliveryResult = "DeliveryError"

\* C23 Backoff schedule: the delay before retry k (k = 1, 2, ...) is
\* min(1s * 2^(k-1), 30s); the sequence of delays between attempts is
\* non-decreasing and never exceeds 30s.
C23_BackoffSchedule ==
  /\ \A k \in 1..Len(delays) : delays[k] = Min(1000 * Pow2(k - 1), 30000)
  /\ \A k \in 1..Len(delays) : delays[k] <= 30000
  /\ \A j, k \in 1..Len(delays) : j <= k => delays[j] <= delays[k]

C23_Witness ==
  /\ Len(delays) = 6
  /\ delays[1] = 1000
  /\ delays[5] = 16000
  /\ delays[6] = 30000

\* C24 Circuit breaker per endpoint: the breaker is open exactly when the
\* run of consecutive failures has reached the configured threshold or a
\* probe failed; a call that starts while it is open fails fast; under any
\* interleaving of the calls to the endpoint at most one half-open probe is
\* in flight, started from the half-open state; and a successful probe
\* closes the breaker.
C24_CircuitBreaker ==
  breakerState # "off" =>
     /\ Cardinality({c \in Calls : callPc[c] = "probing"}) <= 1
     /\ (breakerState = "closed" => consecutiveFailures < failureThreshold)
     /\ (breakerState = "open" => consecutiveFailures >= failureThreshold)
     /\ \A c \in Calls :
          /\ callStartedIn[c] = "open" => callResult[c] = "CircuitOpenError"
          /\ callPc[c] = "probing" =>
               (callStartedIn[c] = "halfOpen" /\ breakerState = "halfOpen" /\ probeClaimed)
     /\ (breakerLast = "probeSuccess" =>
           breakerState = "closed" /\ consecutiveFailures = 0)

C24_Witness ==
  /\ breakerState = "halfOpen"
  /\ \E c, d \in Calls :
       /\ callPc[c] = "probing"
       /\ callStartedIn[d] = "halfOpen"
       /\ callResult[d] = "CircuitOpenError"

(***************************************************************************)
(* Claims about the details of a denied call                               *)
(***************************************************************************)

\* Some report with blocked=true carries the sensitivity list l.
BlockedReportCarries(l) ==
  \E i \in 1..Len(csent) :
     /\ csent[i].endpoint = "monitoring"
     /\ csent[i].blocked
     /\ csent[i].sensitivity = l

\* C29 Blocked error carries the verdict's details: on a denied call the
\* OlakaiBlockedError that is raised and the blocked=true MonitorPayload that
\* is reported both carry the detected-sensitivity list of the control
\* response.
C29_BlockedErrorCarriesDetails ==
  (\/ callerOutcome = Rejected("OlakaiBlockedError")
   \/ callbackOutcome = Rejected("OlakaiBlockedError")) =>
     /\ blockedDetails = DetectedSensitivity(control)
     /\ BlockedReportCarries(DetectedSensitivity(control))

(***************************************************************************)
(* Claims about how often the monitored callable runs                      *)
(***************************************************************************)

\* C36 Callable runs at most once: in every invocation of a monitor()-wrapped
\* function the callable is invoked at most once: exactly once on the
\* uninitialized path and on the allowed path, never on the blocked path, and
\* no failure of reporting causes a second invocation.
C36_CallableRunsAtMostOnce ==
  /\ fnCalls <= 1 /\ Len(fnCallLog) = fnCalls
  /\ (~configOk /\ mpc \in {"awaitFnUninit", "done"}) => fnCalls = 1
  /\ (configOk /\ ~IsBlocked(shouldAllow) /\ mpc \in {"awaitFn", "done"}) => fnCalls = 1
  /\ (configOk /\ mpc \in {"checked", "done"} /\ IsBlocked(shouldAllow)) => fnCalls = 0
  /\ (\E i \in 1..Len(sent) : flight[i] = "rejected") => fnCalls <= 1

\* The callable ran on the allowed path and its success report failed.
C36_Witness ==
  /\ configOk /\ shouldAllow = "allowed" /\ mpc = "done"
  /\ fnCalls = 1
  /\ Len(sent) = 2 /\ flight[2] = "rejected"

\* The final-result accessors that fall back to the final message's text.
FallbackAccessors == {"finalMessage", "getFinalMessage", "response"}

\* C37 Final-accessor text fallback: when a final-result accessor (Anthropic
\* finalMessage / getFinalMessage(), Google response) resolves before any
\* completion report was made, the report it makes carries the text of the
\* final message if no text has been accumulated, and the accumulated text,
\* unchanged, if some has.
C37_FinalAccessorFallback ==
  [][\A a \in FallbackAccessors :
       (AccessorResolves(a) /\ ~callbackFired) =>
          /\ Len(onLLMCall') = 1
          /\ onLLMCall'[1].text =
                IF accumulatedText = <<>> THEN FullText(chunks) ELSE accumulatedText]_vars

\* The consumer read the first of two deltas, then the accessor resolved:
\* the report carries the one delta read.
C37_Witness ==
  /\ lastOp = "resolved"
  /\ iters = 1 /\ accReads = 1
  /\ FullText(chunks) = <<1, 2>>
  /\ Len(onLLMCall) = 1 /\ onLLMCall[1].text = <<1>> /\ onLLMCall[1].final = "message"

(***************************************************************************)
(* Claims about the wrapped iterator, call by call                         *)
(***************************************************************************)

\* C32 Stream transparency: every call of next() on the wrapped iterator of
\* an Anthropic or Google stream answers exactly what the original iterator
\* answered to it (same value, same done signal, same rejection), and the
\* accumulation never raises: a chunk whose text cannot be extracted adds
\* empty text and is delivered like any other.
C32_StreamTransparency ==
  lastCall.op = "next" =>
     /\ lastCall.wrapped = lastCall.orig
     /\ lastCall.orig.kind = "value" =>
          accumulatedText =
            lastCall.accBefore \o
              (IF chunks[lastCall.orig.value].type = "delta"
               THEN <<lastCall.orig.value>> ELSE <<>>)
     /\ lastCall.orig.kind # "value" => accumulatedText = lastCall.accBefore

\* A delta, then a chunk whose text cannot be extracted, both delivered.
C32_Witness ==
  /\ lastCall.op = "next"
  /\ lastCall.orig = Value(2) /\ lastCall.wrapped = Value(2)
  /\ chunks[1].type = "delta" /\ chunks[2].type = "failing"
  /\ accumulatedText = <<1>>

\* C39 Early-exit forwarding: return(v) on a wrapped iterator has fired the
\* completion callback and answers what the original's return(v) answered
\* when the original has one, { done: true, value: v } otherwise; throw(e)
\* answers what the original's throw(e) answered when the original has one
\* and raises e otherwise; neither changes the accumulated text.
C39_EarlyExitForwarding ==
  /\ lastCall.op = "return" =>
       /\ callbackFired /\ Len(onLLMCall) = 1
       /\ lastCall.wrapped = Done(ReturnValue)
       /\ lastCall.orig = IF origHasReturn THEN lastCall.wrapped ELSE NotCalled
       /\ accumulatedText = lastCall.accBefore
  /\ lastCall.op = "throw" =>
       /\ lastCall.wrapped = Raised(ThrownError)
       /\ lastCall.orig = IF origHasThrow THEN lastCall.wrapped ELSE NotCalled
       /\ accumulatedText = lastCall.accBefore

\* return(v) after one delta on an iterator whose original has no return
\* method: the callback has fired with that delta.
C39_Witness ==
  /\ lastCall.op = "return" /\ ~origHasReturn
  /\ lastCall.wrapped = Done(ReturnValue)
  /\ accumulatedText = <<1>>
  /\ Len(onLLMCall) = 1 /\ onLLMCall[1].text = <<1>>

\* The text of the chunks call c has been read up to.
ConsumedText(c) ==
  FullText(SubSeq(streamCalls[c].chunks, 1, streamCalls[c].pos))

\* C31 Accumulator isolation under interleaving: of two streaming calls made
\* through the same wrapped client and consumed in any interleaving, each has
\* its own accumulated text and completion flag: a call's report holds that
\* call's chunks only, is made exactly once when that call's consumption has
\* ended, and is neither made nor suppressed by the other call's completion.
C31_AccumulatorIsolation ==
  \A c \in DOMAIN streamCalls :
     /\ cells[c].text = ConsumedText(c)
     /\ cells[c].fired <=> streamCalls[c].ended
     /\ streamCalls[c].reports =
          IF streamCalls[c].ended THEN <<ConsumedText(c)>> ELSE <<>>

\* The first call was read to its end while the second, one delta read, was
\* still open; then the consumer of the second broke out.
C31_Witness ==
  /\ streamCalls # <<>>
  /\ streamCalls[1].ended /\ streamCalls[1].reports = <<<<11, 12>>>>
  /\ streamCalls[2].ended /\ streamCalls[2].reports = <<<<21>>>>
  /\ Len(streamCalls[2].chunks) = 2

(***************************************************************************)
(* Claims about OpenAI streaming calls                                     *)
(***************************************************************************)

\* C35 OpenAI streaming calls: for a wrapped create call with stream: true
\* the completion report is made only once the consumer has finished
\* consuming the stream, and its text is the concatenation, in order, of the
\* text deltas of the chunks produced.
C35_OpenAIStreamingReport ==
  (provider = "openai" /\ onLLMCall # <<>>) =>
     /\ Len(onLLMCall) = 1
     /\ lastOp \in {"done", "return", "rejected"}
     /\ onLLMCall[1].text = FullText(SubSeq(chunks, 1, produced))

(***************************************************************************)
(* Claims about generateText and streamText                                *)
(***************************************************************************)

\* C33 generateText does not wait for the report: on the success path of
\* generateText the provider's result has been handed back to the caller
\* while the monitoring delivery is still in flight.
C33_GenerateTextDoesNotWait ==
  (sdkOp = "generateText" /\ vpc = "awaitMonitoring") =>
     callerOutcome = Resolved(ResponseOf(responseShape))

\* C34 streamText completion report: for a streamText call whose provider
\* call succeeded, the handle is with the caller, unchanged, while completion
\* is still being tracked; at most one completion report is sent; no failure
\* of the tracking reaches anybody; and the tracking has ended without a
\* report only for a stream that did not finish (its finishPromise rejected).
C34_StreamTextCompletionReport ==
  (sdkOp = "streamText" /\ ~providerFails /\ responseShape = "ok"
     /\ tpc # "none") =>
     /\ callerOutcome = Resolved("response")
     /\ Cardinality(SuccessReports) <= 1
     /\ cunhandled = 0
     /\ (tpc = "done" /\ SuccessReports = {}) => hasFinishPromise

(***************************************************************************)
(* Claims about the chatId of an SDK instance                              *)
(***************************************************************************)

====
